---- MODULE Spec2Model ----
(***************************************************************************)
(* Real-time coordination layer of the chat server: the WebSocket hub      *)
(* (session registry, presence, typing, WebRTC relay), the call status     *)
(* machine and the HTTP routes that touch calls and read receipts.         *)
(*                                                                         *)
(* A handler is an async function: it runs synchronously up to its first   *)
(* await and is resumed once per awaited durable-store call.  Each resumed *)
(* segment is one action; the store operation a segment awaited is applied *)
(* at the start of the segment that resumes after it.  Handlers that are   *)
(* suspended at an await are the records of "tasks".                       *)
(***************************************************************************)
EXTENDS Integers, Sequences, FiniteSets, Bags, TLC

\* ------------------------------------------------------------------ bounds
MaxConns == 2
MaxTasks == 1
MaxRace == 2
MaxCalls == 1
MaxEvents == 3
MaxStartEvents == 2
MaxFrameEvents == 1
MaxMsgEvents == 1
MaxMessages == 2
MaxUnhandledEvents == 1
MaxBoxEvents == 4
MaxJoinEvents == 2
MaxEndpointEvents == 4
MaxRegEvents == 2
MaxTicks == 2
TickMs == 600

\* ------------------------------------------------------------- static data
Users == {"A", "B", "C"}
Null == "null"
Conns == 1..MaxConns
NoConn == 0
Convs == {"v1", "v2"}

\* rows of conversation_participants: v1 is the direct conversation of A and
\* B, v2 a group of B and C
Participants(v) == IF v = "v1" THEN {"A", "B"} ELSE {"B", "C"}

\* rows of messages: m1 was sent by A in v1
Messages == {"m1"}
MsgConv(m) == "v1"
MsgSender(m) == "A"

\* the userId values a user-online payload carries
LoginIds == {"A", "B", Null}

\* the identity each connection is bound to in InitBound
BoundId(c) == IF c = 1 THEN "A" ELSE IF c = 2 THEN "B" ELSE "C"

\* users.is_admin
isAdmin(u) == u = "C"

\* callStatusEnum
CallStatuses == {"initiated", "ringing", "active", "ended", "missed", "declined"}

\* a null timestamp or duration
Nil == -1
MsPerSecond == 1000

\* the call events that name a call, and the conversations calls are started in
CallEvents == {"accept-call", "decline-call", "end-call"}
CallConvs == {"v1"}

RelayTypes == {"ice-candidate", "webrtc-offer", "webrtc-answer"}

VARIABLES
    connState,   \* ws.readyState per connection: "idle" (not yet accepted), "open", "closed"
    userId,      \* the closure variable userId of each connection
    clients,     \* the clients map: identity -> connection (NoConn: no entry)
    userStatus,  \* users.status
    isTyping,    \* conversation_participants.is_typing, per <<conversation, user>>
    receipts,    \* message_receipts rows, as <<message, user>>
    calls,       \* rows of calls; a call's id is its index
    callParts,   \* rows of call_participants (a bag: the table has no unique key)
    now,         \* the clock read by new Date(), in milliseconds
    budget,      \* events and requests still to arrive
    tasks,       \* handlers suspended at an await: per connection (NoConn: the
                 \* HTTP routes), in order of arrival
    sent,        \* the send attempts of the last step (conn = NoConn: dropped)
    inbox,       \* what each connection was sent, in order (kept when recording)
    recording,
    cap,         \* how many handlers may be suspended at a time
    messages,    \* rows of messages; a message's id is its index
    http,        \* what the message routes did per request: written (the write
                 \* completed), res (<<request, status>> sent), logged (console.error)
    box,         \* the message box of one browser page (MessageInput inside
                 \* ChatWindow) and the browser timers it has set
    link,        \* one row of conversation_invite_links and the participants of
                 \* its conversation
    endpoint,    \* the CallProvider of one browser page
    ghost        \* history the properties refer to; no handler reads it

vars == <<connState, userId, clients, userStatus, isTyping, receipts, calls, callParts,
          now, budget, tasks, sent, inbox, recording, cap, messages, http, box, link, endpoint, ghost>>

\* the registry and the rows the call handlers never write
hubVars == <<connState, userId, clients, userStatus, isTyping, receipts, recording, cap, messages, http, box, link, endpoint>>

\* the variables of the call machine, which the hub's other handlers leave alone
callVars == <<calls, callParts, now>>

\* ------------------------------------------------------------------ events
\* {type, payload} envelope; the payload fields a type does not carry are Null
Ev(type, conv, callId, user, val) ==
    [type |-> type, conv |-> conv, callId |-> callId, user |-> user, val |-> val]

\* a suspended handler: its case, connection, position and locals
NoCall == [conversationId |-> Null, initiatorId |-> Null, status |-> Null,
           startedAt |-> Nil, endedAt |-> Nil, duration |-> Nil]

CallTask(type, conn, pc, conv, val, u, callId, call) ==
    [type |-> type, conn |-> conn, pc |-> pc, conv |-> conv, val |-> val, u |-> u,
     callId |-> callId, call |-> call]

Task(type, conn, pc, conv, val, u) == CallTask(type, conn, pc, conv, val, u, 0, NoCall)

\* rows of messages at the start: row 1 is m1; no request was made yet
StoredMessages ==
    << [conversationId |-> "v1", senderId |-> "A", content |-> "text", deleted |-> FALSE,
        isPinned |-> FALSE, reactions |-> {}, forwardedFromId |-> 0] >>

NoHttp == [written |-> {}, res |-> {}, logged |-> {}]

\* MessageInput as it mounts for conversation v: content and attachments are
\* empty, typingTimeoutRef.current is undefined (0) and the mount effect has
\* called loadDraft. content is kept as "value.trim() is not empty", the only
\* thing the typing code reads of it. timers are the browser's pending
\* typing timers in the order they were set (they all wait 2000 ms, so they
\* fire in that order); last is the last isTyping handed to
\* sendSocketMessage("typing", ...) per conversation; submitted records that
\* handleSubmit ran and no input change followed; left is the number of user
\* actions still to come
NewBox(v) ==
    [conversationId |-> v, content |-> FALSE, attachments |-> FALSE, ref |-> 0,
     timers |-> <<>>, draft |-> TRUE, last |-> [w \in Convs |-> "none"],
     submitted |-> FALSE, left |-> MaxBoxEvents]

\* the invite link of a group that C created: active, without expiry, good
\* for LinkMaxUses uses and not used yet. members are the identities with a
\* row in conversation_participants for the link's conversation, added the
\* number of addParticipant calls made through the link
LinkMaxUses == 1
NewLink == [maxUses |-> LinkMaxUses, useCount |-> 0, members |-> {"C"}, added |-> 0]

\* CallProvider as it mounts: no incoming call, state.currentCall null (0),
\* localStreamRef.current null, peerConnections empty. peers is the map
\* peerConnections.current (0: no entry), open the RTCPeerConnections made
\* and not closed, made their number so far; out are the frames handed to
\* sendMessage (callId 0: the payload has none); offering and answering hold
\* the <<peer, connection>> pairs of startCall and handleOffer that wait for
\* their WebRTC promises; left is the number of user actions and received
\* frames still to come
NewEndpoint ==
    [incomingCall |-> 0, currentCall |-> 0, localStream |-> FALSE,
     peers |-> [u \in Users |-> 0], open |-> {}, made |-> 0, offering |-> {},
     answering |-> {}, out |-> <<>>, left |-> MaxEndpointEvents]

\* wasActive: the calls that have had status active; declinedBy: <<call, user>>
\* for every decline-call applied; superseder: per identity, the connection
\* whose user-online last replaced another connection's entry
NoHistory == [wasActive |-> {}, declinedBy |-> {}, superseder |-> [u \in Users |-> NoConn],
              unhandled |-> <<NoConn, Null>>]

IsOpen(c) == c # NoConn /\ connState[c] = "open"

\* broadcastToUsers without the readyState test
broadcastToUsers_NoOpenCheck(userIds, ev) ==
    { [to |-> u, conn |-> clients[u], ev |-> ev] : u \in userIds }

\* broadcastToUsers: one send attempt per listed identity
broadcastToUsers(userIds, ev) ==
    { [to |-> u,
       conn |-> IF IsOpen(clients[u]) THEN clients[u] ELSE NoConn,
       ev |-> ev] : u \in userIds }

\* broadcastToConversation: the participants, minus excludeUserId
broadcastToConversation(conversationId, ev, excludeUserId) ==
    broadcastToUsers({p \in Participants(conversationId) : p # excludeUserId}, ev)

\* storage.getUserConversations
getUserConversations(u) == {v \in Convs : u \in Participants(v)}

\* the contactIds set built by the user-online and close handlers
contactIds(conversations, uid) ==
    {p \in UNION {Participants(v) : v \in conversations} : p # uid}

Copies(outs, c) == Cardinality({s \in outs : s.conn = c})

RECURSIVE Repeat(_, _)
Repeat(e, n) == IF n = 0 THEN <<>> ELSE <<e>> \o Repeat(e, n - 1)

\* client.send for every attempt of one broadcast (all carry the same event)
Emit(outs) ==
    /\ sent' = outs
    /\ inbox' = IF recording /\ outs # {}
                THEN [c \in Conns |->
                        inbox[c] \o Repeat((CHOOSE s \in outs : TRUE).ev, Copies(outs, c))]
                ELSE inbox

NoEmit == Emit({})

\* a suspended handler is named by its connection and its place in the
\* connection's arrival order
Sources == Conns \cup {NoConn}
MaxHandles == IF MaxRace > MaxTasks THEN MaxRace ELSE MaxTasks
Handles == Sources \X (1..MaxHandles)
NoTasks == [c \in Sources |-> <<>>]
IsTask(h) == h[2] \in DOMAIN tasks[h[1]]
TaskAt(h) == tasks[h[1]][h[2]]
AllTasks == {TaskAt(h) : h \in {g \in Handles : IsTask(g)}}

RECURSIVE SumLen(_)
SumLen(S) == IF S = {} THEN 0
             ELSE LET c == CHOOSE x \in S : TRUE IN Len(tasks[c]) + SumLen(S \ {c})
NumTasks == SumLen(Sources)

Suspend(t) == tasks' = [tasks EXCEPT ![t.conn] = Append(@, t)]
Resume(h, t) == tasks' = [tasks EXCEPT ![h[1]][h[2]] = t]
Finish(h) ==
    tasks' = [tasks EXCEPT ![h[1]] =
                 [j \in 1..(Len(@) - 1) |-> IF j < h[2] THEN @[j] ELSE @[j + 1]]]

CanReceive(c) == connState[c] = "open" /\ NumTasks < cap

\* one more event or request arrives
Arrive == budget > 0 /\ budget' = budget - 1

\* ----------------------------------------------------------------- actions
Init ==
    /\ connState = [c \in Conns |-> "idle"]
    /\ userId = [c \in Conns |-> Null]
    /\ clients = [u \in Users |-> NoConn]
    /\ userStatus = [u \in Users |-> "offline"]
    /\ isTyping = [v \in Convs |-> [u \in Participants(v) |-> FALSE]]
    /\ receipts = {}
    /\ calls = <<>>
    /\ callParts = EmptyBag
    /\ now = 0
    /\ budget = MaxRegEvents
    /\ tasks = NoTasks
    /\ sent = {}
    /\ inbox = [c \in Conns |-> <<>>]
    /\ recording = FALSE
    /\ cap = MaxTasks
    /\ messages = StoredMessages
    /\ http = NoHttp
    /\ box = NewBox("v1")
    /\ link = NewLink
    /\ endpoint = NewEndpoint
    /\ ghost = NoHistory

\* The state after the first MaxConns identities of BoundIds have each opened a
\* connection and had their user-online handled.
InitBound ==
    /\ connState = [c \in Conns |-> "open"]
    /\ userId = [c \in Conns |-> BoundId(c)]
    /\ clients = [u \in Users |-> IF \E c \in Conns : BoundId(c) = u
                                  THEN CHOOSE c \in Conns : BoundId(c) = u ELSE NoConn]
    /\ userStatus = [u \in Users |-> IF \E c \in Conns : BoundId(c) = u
                                     THEN "online" ELSE "offline"]
    /\ isTyping = [v \in Convs |-> [u \in Participants(v) |-> FALSE]]
    /\ receipts = {}
    /\ calls = <<>>
    /\ callParts = EmptyBag
    /\ now = 0
    /\ budget = MaxEvents
    /\ tasks = NoTasks
    /\ sent = {}
    /\ inbox = [c \in Conns |-> <<>>]
    /\ recording = FALSE
    /\ cap = MaxTasks
    /\ messages = StoredMessages
    /\ http = NoHttp
    /\ box = NewBox("v1")
    /\ link = NewLink
    /\ endpoint = NewEndpoint
    /\ ghost = NoHistory

\* wss.on("connection"); connections are numbered in the order they arrive
Connect(c) ==
    /\ connState[c] = "idle"
    /\ \A b \in 1..(c - 1) : connState[b] # "idle"
    /\ connState' = [connState EXCEPT ![c] = "open"]
    /\ userId' = [userId EXCEPT ![c] = Null]
    /\ NoEmit
    /\ UNCHANGED <<clients, userStatus, isTyping, receipts, tasks, recording, cap, messages, http, box, link, endpoint, callVars, ghost, budget>>

\* case "user-online", up to the await of updateUserStatus (val: payload.userId;
\* u: the closure variable as the handler last read it)
RecvUserOnline(c, u) ==
    /\ CanReceive(c)
    /\ userId' = [userId EXCEPT ![c] = u]
    /\ IF u # Null
       THEN /\ clients' = [clients EXCEPT ![u] = c]
            /\ Suspend(Task("user-online", c, "status", Null, u, u))
            /\ ghost' = [ghost EXCEPT !.superseder[u] =
                            IF clients[u] = c THEN @
                            ELSE IF clients[u] # NoConn THEN c ELSE NoConn]
       ELSE UNCHANGED <<clients, tasks, ghost>>
    /\ Arrive
    /\ NoEmit
    /\ UNCHANGED <<connState, userStatus, isTyping, receipts, recording, cap, messages, http, box, link, endpoint, callVars>>

\* updateUserStatus(userId, "online") completes; getUserConversations(userId) is issued
UserOnlineStatus(i) ==
    /\ IsTask(i)
    /\ TaskAt(i).type = "user-online" /\ TaskAt(i).pc = "status"
    /\ userStatus' = [userStatus EXCEPT ![TaskAt(i).u] = "online"]
    /\ Resume(i, [TaskAt(i) EXCEPT !.pc = "notify", !.u = userId[TaskAt(i).conn]])
    /\ NoEmit
    /\ UNCHANGED <<connState, userId, clients, isTyping, receipts, recording, cap, messages, http, box, link, endpoint, callVars, ghost, budget>>

\* getUserConversations completes; the contacts are notified
UserOnlineNotify(i) ==
    /\ IsTask(i)
    /\ TaskAt(i).type = "user-online" /\ TaskAt(i).pc = "notify"
    /\ LET me == userId[TaskAt(i).conn]
       IN Emit(broadcastToUsers(contactIds(getUserConversations(TaskAt(i).u), me),
                                Ev("user-status-changed", Null, Null, me, "online")))
    /\ Finish(i)
    /\ UNCHANGED <<connState, userId, clients, userStatus, isTyping, receipts, recording, cap, messages, http, box, link, endpoint, callVars, ghost, budget>>

\* case "typing" (the first one; the second case "typing" of the switch is
\* unreachable), up to the await of updateTypingStatus
RecvTyping(c, v, b) ==
    /\ CanReceive(c)
    /\ userId[c] # Null
    /\ Suspend(Task("typing", c, "write", v, b, userId[c]))
    /\ Arrive
    /\ NoEmit
    /\ UNCHANGED <<connState, userId, clients, userStatus, isTyping, receipts, recording, cap, messages, http, box, link, endpoint, callVars, ghost>>

\* updateTypingStatus completes (it updates the participant's row, if there
\* is one); broadcastToConversation is entered and awaits getParticipants
TypingWrite(i) ==
    /\ IsTask(i)
    /\ TaskAt(i).type = "typing" /\ TaskAt(i).pc = "write"
    /\ LET t == TaskAt(i)
       IN /\ isTyping' = IF t.u \in Participants(t.conv)
                         THEN [isTyping EXCEPT ![t.conv][t.u] = t.val]
                         ELSE isTyping
          /\ Resume(i, [t EXCEPT !.pc = "broadcast", !.u = userId[t.conn]])
    /\ NoEmit
    /\ UNCHANGED <<connState, userId, clients, userStatus, receipts, recording, cap, messages, http, box, link, endpoint, callVars, ghost, budget>>

\* getParticipants completes; typing-status goes to the others
TypingBroadcast(i) ==
    /\ IsTask(i)
    /\ TaskAt(i).type = "typing" /\ TaskAt(i).pc = "broadcast"
    /\ LET t == TaskAt(i)
       IN Emit(broadcastToConversation(t.conv, Ev("typing-status", t.conv, Null, t.u, t.val), t.u))
    /\ Finish(i)
    /\ UNCHANGED <<connState, userId, clients, userStatus, isTyping, receipts, recording, cap, messages, http, box, link, endpoint, callVars, ghost, budget>>

\* case "ice-candidate" / "webrtc-offer" / "webrtc-answer": no await
RecvRelay(c, type, target) ==
    /\ connState[c] = "open"
    /\ userId[c] # Null
    /\ Emit(broadcastToUsers({target}, Ev(type, Null, Null, userId[c], "sdp")))
    /\ UNCHANGED <<connState, userId, clients, userStatus, isTyping, receipts, tasks, recording, cap, messages, http, box, link, endpoint, callVars, ghost, budget>>

\* Close without the clients.delete
Close_KeepsEntry(c) ==
    /\ connState[c] = "open"
    /\ connState' = [connState EXCEPT ![c] = "closed"]
    /\ IF userId[c] # Null
       THEN /\ NumTasks < cap
            /\ Suspend(Task("close", c, "status", Null, Null, userId[c]))
       ELSE UNCHANGED <<tasks>>
    /\ NoEmit
    /\ UNCHANGED <<clients, userId, userStatus, isTyping, receipts, recording, cap, messages, http, box, link, endpoint, callVars, ghost, budget>>

\* ws.on("close"), up to the await of updateUserStatus
Close(c) ==
    /\ connState[c] = "open"
    /\ connState' = [connState EXCEPT ![c] = "closed"]
    /\ IF userId[c] # Null
       THEN /\ NumTasks < cap
            /\ clients' = [clients EXCEPT ![userId[c]] = NoConn]
            /\ Suspend(Task("close", c, "status", Null, Null, userId[c]))
       ELSE UNCHANGED <<clients, tasks>>
    /\ NoEmit
    /\ UNCHANGED <<userId, userStatus, isTyping, receipts, recording, cap, messages, http, box, link, endpoint, callVars, ghost, budget>>

\* a close handler that also ends the active calls
CloseStatus_EndsCalls(i) ==
    /\ IsTask(i)
    /\ TaskAt(i).type = "close" /\ TaskAt(i).pc = "status"
    /\ userStatus' = [userStatus EXCEPT ![TaskAt(i).u] = "offline"]
    /\ calls' = [k \in DOMAIN calls |->
                   IF calls[k].status = "active" THEN [calls[k] EXCEPT !.status = "ended"]
                   ELSE calls[k]]
    /\ Resume(i, [TaskAt(i) EXCEPT !.pc = "notify", !.u = userId[TaskAt(i).conn]])
    /\ NoEmit
    /\ UNCHANGED <<connState, userId, clients, isTyping, receipts, recording, cap, messages,
                   http, box, link, endpoint, callParts, now, ghost, budget>>

\* updateUserStatus(userId, "offline") completes; getUserConversations(userId) is issued
CloseStatus(i) ==
    /\ IsTask(i)
    /\ TaskAt(i).type = "close" /\ TaskAt(i).pc = "status"
    /\ userStatus' = [userStatus EXCEPT ![TaskAt(i).u] = "offline"]
    /\ Resume(i, [TaskAt(i) EXCEPT !.pc = "notify", !.u = userId[TaskAt(i).conn]])
    /\ NoEmit
    /\ UNCHANGED <<connState, userId, clients, isTyping, receipts, recording, cap, messages, http, box, link, endpoint, callVars, ghost, budget>>

\* getUserConversations completes; the contacts are notified
CloseNotify(i) ==
    /\ IsTask(i)
    /\ TaskAt(i).type = "close" /\ TaskAt(i).pc = "notify"
    /\ LET me == userId[TaskAt(i).conn]
       IN Emit(broadcastToUsers(contactIds(getUserConversations(TaskAt(i).u), me),
                                Ev("user-status-changed", Null, Null, me, "offline")))
    /\ Finish(i)
    /\ UNCHANGED <<connState, userId, clients, userStatus, isTyping, receipts, recording, cap, messages, http, box, link, endpoint, callVars, ghost, budget>>

\* POST /api/messages/:id/read by session user u, up to the await of
\* markMessageRead (the 403 and "Own message" outcomes change nothing)
HttpRead(u, m) ==
    /\ NumTasks < cap
    /\ u \in Participants(MsgConv(m))
    /\ MsgSender(m) # u
    /\ Suspend(Task("read", NoConn, "mark", MsgConv(m), m, u))
    /\ Arrive
    /\ NoEmit
    /\ UNCHANGED <<connState, userId, clients, userStatus, isTyping, receipts, recording, cap, messages, http, box, link, endpoint, callVars, ghost>>

\* markMessageRead completes; getUser, then getParticipants are awaited
ReadMark(i) ==
    /\ IsTask(i)
    /\ TaskAt(i).type = "read" /\ TaskAt(i).pc = "mark"
    /\ receipts' = receipts \cup {<<TaskAt(i).val, TaskAt(i).u>>}
    /\ Resume(i, [TaskAt(i) EXCEPT !.pc = "broadcast"])
    /\ NoEmit
    /\ UNCHANGED <<connState, userId, clients, userStatus, isTyping, recording, cap, messages, http, box, link, endpoint, callVars, ghost, budget>>

\* getParticipants completes; message-read goes to the whole conversation
ReadBroadcast(i) ==
    /\ IsTask(i)
    /\ TaskAt(i).type = "read" /\ TaskAt(i).pc = "broadcast"
    /\ LET t == TaskAt(i)
       IN Emit(broadcastToConversation(t.conv, Ev("message-read", t.conv, Null, t.u, t.val), Null))
    /\ Finish(i)
    /\ UNCHANGED <<connState, userId, clients, userStatus, isTyping, receipts, recording, cap, messages, http, box, link, endpoint, callVars, ghost, budget>>

\* ------------------------------------------------------- the call machine
\* storage.getCall
getCall(id) == IF id \in DOMAIN calls THEN calls[id] ELSE NoCall

\* a call_participants row as addCallParticipant inserts it
PartRow(callId, u) ==
    [callId |-> callId, userId |-> u, isMuted |-> FALSE, isVideoOff |-> FALSE,
     isScreenSharing |-> FALSE]

\* Math.floor((endedAt - startedAt) / 1000), or 0 for a call that never started
CallDuration(startedAt, endedAt) ==
    IF startedAt # Nil THEN (endedAt - startedAt) \div MsPerSecond ELSE 0

\* start-call handlers and POST requests that have not created their call yet
Creating == Cardinality({h \in Handles : IsTask(h) /\ TaskAt(h).pc = "create"})

CanReceiveCallEvent(c) == CanReceive(c) /\ userId[c] # Null

\* new Date() moves on
Tick ==
    /\ now < MaxTicks * TickMs
    /\ now' = now + TickMs
    /\ NoEmit
    /\ UNCHANGED <<hubVars, calls, callParts, budget, tasks, ghost>>

\* case "start-call", up to the await of createCall
RecvStartCall(c, v) ==
    /\ CanReceiveCallEvent(c)
    /\ Len(calls) + Creating < MaxCalls
    /\ Arrive
    /\ Suspend(CallTask("start-call", c, "create", v, Null, userId[c], 0, NoCall))
    /\ NoEmit
    /\ UNCHANGED <<hubVars, calls, callParts, now, ghost>>

\* createCall completes; addCallParticipant(call.id, userId) is issued
StartCreate(i) ==
    /\ IsTask(i)
    /\ TaskAt(i).type = "start-call" /\ TaskAt(i).pc = "create"
    /\ LET t == TaskAt(i)
           call == [NoCall EXCEPT !.conversationId = t.conv, !.initiatorId = t.u,
                                  !.status = "initiated"]
       IN /\ calls' = Append(calls, call)
          /\ Resume(i, [t EXCEPT !.pc = "join", !.callId = Len(calls) + 1, !.call = call,
                                 !.u = userId[t.conn]])
    /\ NoEmit
    /\ UNCHANGED <<hubVars, callParts, now, budget, ghost>>

\* addCallParticipant completes; getUser(userId) is issued
StartJoin(i) ==
    /\ IsTask(i)
    /\ TaskAt(i).type = "start-call" /\ TaskAt(i).pc = "join"
    /\ LET t == TaskAt(i)
       IN /\ callParts' = callParts (+) SetToBag({PartRow(t.callId, t.u)})
          /\ Resume(i, [t EXCEPT !.pc = "broadcast", !.u = userId[t.conn]])
    /\ NoEmit
    /\ UNCHANGED <<hubVars, calls, now, budget, ghost>>

\* StartBroadcast with the initiator not excluded
StartBroadcast_NoExclude(i) ==
    /\ IsTask(i)
    /\ TaskAt(i).type = "start-call" /\ TaskAt(i).pc = "broadcast"
    /\ LET t == TaskAt(i)
       IN Emit(broadcastToConversation(t.conv,
                   Ev("incoming-call", t.conv, t.callId, t.u, Null), Null))
    /\ Finish(i)
    /\ UNCHANGED <<hubVars, callVars, ghost, budget>>

\* getUser, then getParticipants complete; incoming-call goes to the others
StartBroadcast(i) ==
    /\ IsTask(i)
    /\ TaskAt(i).type = "start-call" /\ TaskAt(i).pc = "broadcast"
    /\ LET t == TaskAt(i)
       IN Emit(broadcastToConversation(t.conv,
                   Ev("incoming-call", t.conv, t.callId, t.u, Null), userId[t.conn]))
    /\ Finish(i)
    /\ UNCHANGED <<hubVars, callVars, ghost, budget>>

\* case "accept-call" / "decline-call" / "end-call", up to the await of getCall
\* (val: the startedAt an accept-call is going to write, not yet taken)
RecvCallEvent(c, type, k) ==
    /\ CanReceiveCallEvent(c)
    /\ Arrive
    /\ Suspend(CallTask(type, c, "get", Null, IF type = "accept-call" THEN Nil ELSE Null,
                         userId[c], k, NoCall))
    /\ NoEmit
    /\ UNCHANGED <<hubVars, calls, callParts, now, ghost>>

\* an accept-call that goes on without testing the call it read
AcceptGet_Unchecked(i) ==
    /\ IsTask(i)
    /\ TaskAt(i).type = "accept-call" /\ TaskAt(i).pc = "get"
    /\ LET t == TaskAt(i)
           call == getCall(t.callId)
       IN Resume(i, [t EXCEPT !.pc = "join", !.call = call, !.u = userId[t.conn]])
    /\ NoEmit
    /\ UNCHANGED <<hubVars, callVars, ghost, budget>>

\* accept-call: getCall completes; addCallParticipant(call.id, userId) is issued
AcceptGet(i) ==
    /\ IsTask(i)
    /\ TaskAt(i).type = "accept-call" /\ TaskAt(i).pc = "get"
    /\ LET t == TaskAt(i)
           call == getCall(t.callId)
       IN IF call # NoCall
          THEN Resume(i, [t EXCEPT !.pc = "join", !.call = call, !.u = userId[t.conn]])
          ELSE Finish(i)
    /\ NoEmit
    /\ UNCHANGED <<hubVars, callVars, ghost, budget>>

\* accept-call: addCallParticipant completes; updateCall is issued with
\* {status: "active", startedAt: new Date()}
AcceptJoin(i) ==
    /\ IsTask(i)
    /\ TaskAt(i).type = "accept-call" /\ TaskAt(i).pc = "join"
    /\ LET t == TaskAt(i)
       IN /\ callParts' = callParts (+) SetToBag({PartRow(t.callId, t.u)})
          /\ Resume(i, [t EXCEPT !.pc = "update", !.val = now])
    /\ NoEmit
    /\ UNCHANGED <<hubVars, calls, now, budget, ghost>>

\* AcceptUpdate that sets the status and leaves startedAt alone
AcceptUpdate_NoStamp(i) ==
    /\ IsTask(i)
    /\ TaskAt(i).type = "accept-call" /\ TaskAt(i).pc = "update"
    /\ LET t == TaskAt(i)
       IN /\ calls' = [calls EXCEPT ![t.callId].status = "active"]
          /\ IF t.call.conversationId # Null
             THEN Resume(i, [t EXCEPT !.pc = "broadcast", !.u = userId[t.conn]])
             ELSE Finish(i)
    /\ NoEmit
    /\ ghost' = [ghost EXCEPT !.wasActive = @ \cup {TaskAt(i).callId}]
    /\ UNCHANGED <<hubVars, callParts, now, budget>>

\* accept-call: updateCall completes; broadcastToConversation awaits getParticipants
AcceptUpdate(i) ==
    /\ IsTask(i)
    /\ TaskAt(i).type = "accept-call" /\ TaskAt(i).pc = "update"
    /\ LET t == TaskAt(i)
       IN /\ calls' = [calls EXCEPT ![t.callId].status = "active",
                                    ![t.callId].startedAt = t.val]
          /\ IF t.call.conversationId # Null
             THEN Resume(i, [t EXCEPT !.pc = "broadcast", !.u = userId[t.conn]])
             ELSE Finish(i)
    /\ NoEmit
    /\ ghost' = [ghost EXCEPT !.wasActive = @ \cup {TaskAt(i).callId}]
    /\ UNCHANGED <<hubVars, callParts, now, budget>>

\* AcceptBroadcast with the sender excluded, as the typing broadcast does
AcceptBroadcast_ExcludesSender(i) ==
    /\ IsTask(i)
    /\ TaskAt(i).type = "accept-call" /\ TaskAt(i).pc = "broadcast"
    /\ LET t == TaskAt(i)
       IN Emit(broadcastToConversation(t.call.conversationId,
                   Ev("call-accepted", Null, t.callId, t.u, Null), t.u))
    /\ Finish(i)
    /\ UNCHANGED <<hubVars, callVars, ghost, budget>>

\* accept-call: getParticipants completes; call-accepted goes to the conversation
AcceptBroadcast(i) ==
    /\ IsTask(i)
    /\ TaskAt(i).type = "accept-call" /\ TaskAt(i).pc = "broadcast"
    /\ LET t == TaskAt(i)
       IN Emit(broadcastToConversation(t.call.conversationId,
                   Ev("call-accepted", Null, t.callId, t.u, Null), Null))
    /\ Finish(i)
    /\ UNCHANGED <<hubVars, callVars, ghost, budget>>

\* decline-call: getCall completes; updateCall is issued with {status: "declined"}
DeclineGet(i) ==
    /\ IsTask(i)
    /\ TaskAt(i).type = "decline-call" /\ TaskAt(i).pc = "get"
    /\ LET t == TaskAt(i)
           call == getCall(t.callId)
       IN IF call # NoCall
          THEN Resume(i, [t EXCEPT !.pc = "update", !.call = call])
          ELSE Finish(i)
    /\ NoEmit
    /\ UNCHANGED <<hubVars, callVars, ghost, budget>>

\* decline-call: updateCall completes; broadcastToConversation awaits getParticipants
DeclineUpdate(i) ==
    /\ IsTask(i)
    /\ TaskAt(i).type = "decline-call" /\ TaskAt(i).pc = "update"
    /\ LET t == TaskAt(i)
       IN /\ calls' = [calls EXCEPT ![t.callId].status = "declined"]
          /\ IF t.call.conversationId # Null
             THEN Resume(i, [t EXCEPT !.pc = "broadcast", !.u = userId[t.conn]])
             ELSE Finish(i)
    /\ NoEmit
    /\ ghost' = [ghost EXCEPT !.declinedBy = @ \cup {<<TaskAt(i).callId, TaskAt(i).u>>}]
    /\ UNCHANGED <<hubVars, callParts, now, budget>>

\* decline-call: getParticipants completes; call-declined goes to the conversation
DeclineBroadcast(i) ==
    /\ IsTask(i)
    /\ TaskAt(i).type = "decline-call" /\ TaskAt(i).pc = "broadcast"
    /\ LET t == TaskAt(i)
       IN Emit(broadcastToConversation(t.call.conversationId,
                   Ev("call-declined", Null, t.callId, t.u, Null), Null))
    /\ Finish(i)
    /\ UNCHANGED <<hubVars, callVars, ghost, budget>>

\* end-call: getCall completes; endedAt and duration are computed from the
\* call as read and updateCall is issued with them
EndGet(i) ==
    /\ IsTask(i)
    /\ TaskAt(i).type = "end-call" /\ TaskAt(i).pc = "get"
    /\ LET t == TaskAt(i)
           call == getCall(t.callId)
       IN IF call # NoCall
          THEN Resume(i, [t EXCEPT !.pc = "update",
                                   !.call = [call EXCEPT !.endedAt = now,
                                                 !.duration = CallDuration(call.startedAt, now)]])
          ELSE Finish(i)
    /\ NoEmit
    /\ UNCHANGED <<hubVars, callVars, ghost, budget>>

\* end-call: updateCall completes; broadcastToConversation awaits getParticipants
EndUpdate(i) ==
    /\ IsTask(i)
    /\ TaskAt(i).type = "end-call" /\ TaskAt(i).pc = "update"
    /\ LET t == TaskAt(i)
       IN /\ calls' = [calls EXCEPT ![t.callId].status = "ended",
                                    ![t.callId].endedAt = t.call.endedAt,
                                    ![t.callId].duration = t.call.duration]
          /\ IF t.call.conversationId # Null
             THEN Resume(i, [t EXCEPT !.pc = "broadcast", !.u = userId[t.conn]])
             ELSE Finish(i)
    /\ NoEmit
    /\ UNCHANGED <<hubVars, callParts, now, budget, ghost>>

\* end-call: getParticipants completes; call-ended goes to the conversation
EndBroadcast(i) ==
    /\ IsTask(i)
    /\ TaskAt(i).type = "end-call" /\ TaskAt(i).pc = "broadcast"
    /\ LET t == TaskAt(i)
       IN Emit(broadcastToConversation(t.call.conversationId,
                   Ev("call-ended", Null, t.callId, t.u, t.call.duration), Null))
    /\ Finish(i)
    /\ UNCHANGED <<hubVars, callVars, ghost, budget>>

\* PATCH /api/calls/:id by session user u with body {status}, up to the
\* await of getCall
HttpPatchCall(u, k, status) ==
    /\ NumTasks < cap
    /\ Arrive
    /\ Suspend(CallTask("patch-call", NoConn, "get", Null, status, u, k, NoCall))
    /\ NoEmit
    /\ UNCHANGED <<hubVars, calls, callParts, now, ghost>>

\* PATCH: getCall completes, then getUser and, for a non-admin who ends the
\* call, isUserInConversation; updateCall(callId, req.body) is issued
PatchGet(i) ==
    /\ IsTask(i)
    /\ TaskAt(i).type = "patch-call" /\ TaskAt(i).pc = "get"
    /\ LET t == TaskAt(i)
           existingCall == getCall(t.callId)
       IN IF existingCall = NoCall \/ existingCall.conversationId = Null
          THEN Finish(i)     \* 404
          ELSE IF /\ t.val = "ended" /\ ~isAdmin(t.u)
                  /\ t.u \notin Participants(existingCall.conversationId)
          THEN Finish(i)     \* 403
          ELSE Resume(i, [t EXCEPT !.pc = "update", !.call = existingCall])
    /\ NoEmit
    /\ UNCHANGED <<hubVars, callVars, ghost, budget>>

\* PATCH: updateCall completes; a status of "ended" is broadcast
PatchUpdate(i) ==
    /\ IsTask(i)
    /\ TaskAt(i).type = "patch-call" /\ TaskAt(i).pc = "update"
    /\ LET t == TaskAt(i)
       IN /\ calls' = [calls EXCEPT ![t.callId].status = t.val]
          /\ IF t.val = "ended"
             THEN Resume(i, [t EXCEPT !.pc = "broadcast"])
             ELSE Finish(i)
    /\ NoEmit
    /\ ghost' = IF TaskAt(i).val = "active"
                THEN [ghost EXCEPT !.wasActive = @ \cup {TaskAt(i).callId}]
                ELSE ghost
    /\ UNCHANGED <<hubVars, callParts, now, budget>>

\* PATCH: getParticipants completes; call-ended goes to the conversation (its
\* payload has no duration: Nil)
PatchBroadcast(i) ==
    /\ IsTask(i)
    /\ TaskAt(i).type = "patch-call" /\ TaskAt(i).pc = "broadcast"
    /\ LET t == TaskAt(i)
       IN Emit(broadcastToConversation(t.call.conversationId,
                   Ev("call-ended", Null, t.callId, t.u, Nil), Null))
    /\ Finish(i)
    /\ UNCHANGED <<hubVars, callVars, ghost, budget>>

\* ---------------------------------------------------------- specifications
\* The registry: connections come, bind to identities and go.
NextReg ==
    \/ \E c \in Conns : Connect(c)
    \/ \E c \in Conns, u \in LoginIds : RecvUserOnline(c, u)
    \/ \E i \in Handles : UserOnlineStatus(i)
    \/ \E i \in Handles : UserOnlineNotify(i)
    \/ \E c \in Conns, target \in Users : RecvRelay(c, "webrtc-offer", target)
    \/ \E c \in Conns : Close(c)
    \/ \E i \in Handles : CloseStatus(i)
    \/ \E i \in Handles : CloseNotify(i)

SpecReg == Init /\ [][NextReg]_vars

\* The hub with its connections bound: typing, relays and read receipts.
NextHub ==
    \/ \E c \in Conns, v \in Convs, b \in BOOLEAN : RecvTyping(c, v, b)
    \/ \E i \in Handles : TypingWrite(i)
    \/ \E i \in Handles : TypingBroadcast(i)
    \/ \E c \in Conns, type \in RelayTypes, target \in Users : RecvRelay(c, type, target)
    \/ \E u \in Users, m \in Messages : HttpRead(u, m)
    \/ \E i \in Handles : ReadMark(i)
    \/ \E i \in Handles : ReadBroadcast(i)

SpecHub == InitBound /\ [][NextHub]_vars

\* The call machine between bound connections: call events and call updates
\* from anybody, their handlers interleaved at the awaits.
NextCall ==
    \/ Tick
    \/ \E c \in Conns, v \in CallConvs : RecvStartCall(c, v)
    \/ \E i \in Handles : StartCreate(i)
    \/ \E i \in Handles : StartJoin(i)
    \/ \E i \in Handles : StartBroadcast(i)
    \/ \E c \in Conns, type \in CallEvents, k \in 1..MaxCalls : RecvCallEvent(c, type, k)
    \/ \E i \in Handles : AcceptGet(i)
    \/ \E i \in Handles : AcceptJoin(i)
    \/ \E i \in Handles : AcceptUpdate(i)
    \/ \E i \in Handles : AcceptBroadcast(i)
    \/ \E i \in Handles : DeclineGet(i)
    \/ \E i \in Handles : DeclineUpdate(i)
    \/ \E i \in Handles : DeclineBroadcast(i)
    \/ \E i \in Handles : EndGet(i)
    \/ \E i \in Handles : EndUpdate(i)
    \/ \E i \in Handles : EndBroadcast(i)
    \/ \E u \in Users, k \in 1..MaxCalls, status \in CallStatuses : HttpPatchCall(u, k, status)
    \/ \E i \in Handles : PatchGet(i)
    \/ \E i \in Handles : PatchUpdate(i)
    \/ \E i \in Handles : PatchBroadcast(i)

SpecCall == InitBound /\ [][NextCall]_vars

\* The direct call of A (connection 1) to B (connection 2) with clients that
\* follow the protocol: B accepts a call it was told of, A hangs up a call it
\* saw accepted.  What the connections are sent is recorded.
InitHappy ==
    /\ connState = [c \in Conns |-> "open"]
    /\ userId = [c \in Conns |-> BoundId(c)]
    /\ clients = [u \in Users |-> IF \E c \in Conns : BoundId(c) = u
                                  THEN CHOOSE c \in Conns : BoundId(c) = u ELSE NoConn]
    /\ userStatus = [u \in Users |-> IF \E c \in Conns : BoundId(c) = u
                                     THEN "online" ELSE "offline"]
    /\ isTyping = [v \in Convs |-> [u \in Participants(v) |-> FALSE]]
    /\ receipts = {}
    /\ calls = <<>>
    /\ callParts = EmptyBag
    /\ now = 0
    /\ budget = MaxEvents
    /\ tasks = NoTasks
    /\ sent = {}
    /\ inbox = [c \in Conns |-> <<>>]
    /\ recording = TRUE
    /\ cap = MaxTasks
    /\ messages = StoredMessages
    /\ http = NoHttp
    /\ box = NewBox("v1")
    /\ link = NewLink
    /\ endpoint = NewEndpoint
    /\ ghost = NoHistory

Got(c, type, k) == \E n \in DOMAIN inbox[c] : inbox[c][n].type = type /\ inbox[c][n].callId = k
InFlight(type, k) == \E t \in AllTasks : t.type = type /\ t.callId = k

ClientStart == RecvStartCall(1, "v1")

ClientAccept(k) ==
    /\ Got(2, "incoming-call", k)
    /\ ~Got(2, "call-accepted", k) /\ ~InFlight("accept-call", k)
    /\ RecvCallEvent(2, "accept-call", k)

ClientEnd(k) ==
    /\ Got(1, "call-accepted", k)
    /\ ~Got(1, "call-ended", k) /\ ~InFlight("end-call", k)
    /\ RecvCallEvent(1, "end-call", k)

GotRelay(c, type) == \E n \in DOMAIN inbox[c] : inbox[c][n].type = type

\* the negotiation that follows call-accepted: A offers, B answers
ClientOffer(k) ==
    /\ Got(1, "call-accepted", k) /\ ~GotRelay(2, "webrtc-offer")
    /\ RecvRelay(1, "webrtc-offer", "B")

ClientAnswer ==
    /\ GotRelay(2, "webrtc-offer") /\ ~GotRelay(1, "webrtc-answer")
    /\ RecvRelay(2, "webrtc-answer", "A")

NextHappy ==
    \/ Tick
    \/ ClientStart
    \/ \E i \in Handles : StartCreate(i)
    \/ \E i \in Handles : StartJoin(i)
    \/ \E i \in Handles : StartBroadcast(i)
    \/ \E k \in 1..MaxCalls : ClientAccept(k)
    \/ \E i \in Handles : AcceptGet(i)
    \/ \E i \in Handles : AcceptJoin(i)
    \/ \E i \in Handles : AcceptUpdate(i)
    \/ \E i \in Handles : AcceptBroadcast(i)
    \/ \E k \in 1..MaxCalls : ClientEnd(k)
    \/ \E i \in Handles : EndGet(i)
    \/ \E i \in Handles : EndUpdate(i)
    \/ \E i \in Handles : EndBroadcast(i)
    \/ \E k \in 1..MaxCalls : ClientOffer(k)
    \/ ClientAnswer

SpecHappy == InitHappy /\ [][NextHappy]_vars

\* ------------------------------------------------------------- properties
TerminalStatuses == {"ended", "declined", "missed"}

\* the status changes the call machine allows: forward along
\* initiated -> ringing -> active -> ended, or initiated -> declined, or
\* initiated -> missed
ForwardStatus ==
    {<<"initiated", "ringing">>, <<"initiated", "active">>, <<"initiated", "ended">>,
     <<"ringing", "active">>, <<"ringing", "ended">>, <<"active", "ended">>,
     <<"initiated", "declined">>, <<"initiated", "missed">>}

\* C1: every change of a call's status moves it forward along one of the
\* three chains; an ended call never becomes active again and a declined
\* call never becomes active or ended.
C1_StatusMonotonic ==
    [][\A k \in DOMAIN calls :
          calls'[k].status # calls[k].status =>
              <<calls[k].status, calls'[k].status>> \in ForwardStatus]_vars

\* C5: a decline-call that read its call in a terminal status leaves the call
\* record unchanged and broadcasts no call-declined.
C5_DeclineTerminalNoop ==
    [][\A i \in Handles :
          (/\ IsTask(i)
           /\ TaskAt(i).type = "decline-call"
           /\ TaskAt(i).call.status \in TerminalStatuses)
          => /\ DeclineUpdate(i) => calls' = calls
             /\ DeclineBroadcast(i) => sent' = {}]_vars

\* C6: once B has declined call k without having accepted it, an accept-call
\* from B for k adds no CallParticipant, leaves status and startedAt as they
\* are and broadcasts no call-accepted.
C6_AcceptAfterDeclineNoop ==
    [][\A i \in Handles :
          (/\ IsTask(i)
           /\ TaskAt(i).type = "accept-call"
           /\ TaskAt(i).call.status = "declined"
           /\ <<TaskAt(i).callId, TaskAt(i).u>> \in ghost.declinedBy
           /\ TaskAt(i).call.initiatorId # TaskAt(i).u)
          => /\ AcceptJoin(i) => callParts' = callParts
             /\ AcceptUpdate(i) => calls' = calls
             /\ AcceptBroadcast(i) => sent' = {}]_vars

\* C7: an ended call that was active before stores
\* duration = floor((endedAt - startedAt) / 1000) >= 0.
C7_DurationInvariant ==
    \A k \in DOMAIN calls :
        (calls[k].status = "ended" /\ k \in ghost.wasActive)
        => /\ calls[k].startedAt # Nil /\ calls[k].endedAt # Nil
           /\ calls[k].duration = (calls[k].endedAt - calls[k].startedAt) \div MsPerSecond
           /\ calls[k].duration >= 0

\* C2: once user-online for an identity has been handled on a connection that
\* replaced another one, every send addressed to that identity is written to
\* the replacing connection for as long as that connection is open.
C2_SendsReachNewConnection ==
    \A s \in sent :
        IsOpen(ghost.superseder[s.to]) => s.conn = ghost.superseder[s.to]

\* C3: every connection stored in the registry is open.
C3_RegistryEntriesOpen ==
    \A u \in Users : clients[u] # NoConn => connState[clients[u]] = "open"

\* C4: a handler of a connection has an effect only when no handler of an
\* earlier message of the same connection is still suspended.
C4_PerConnectionOrder ==
    [][/\ \A i \in Handles :
             (/\ IsTask(i)
              /\ i[1] # NoConn
              /\ TypingWrite(i) \/ TypingBroadcast(i))
             => i[2] = 1
       /\ \A c \in Conns :
             (/\ \E type \in RelayTypes, target \in Users : RecvRelay(c, type, target)
              /\ \E s \in sent' : s.conn # NoConn)
             => tasks[c] = <<>>]_vars

\* C8: a typing-status, participant-media-changed or message-read event is
\* never written to the connection registered for the identity that
\* triggered it.
C8_NoSelfBroadcast ==
    \A s \in sent :
        s.ev.type \in {"typing-status", "participant-media-changed", "message-read"}
        => s.conn = NoConn \/ s.conn # clients[s.ev.user]

SharesConversation(u, a) == u # a /\ \E v \in Convs : {u, a} \subseteq Participants(v)

StatusChanged(a, status) == Ev("user-status-changed", Null, Null, a, status)

\* C10: when the connection bound to A closes, A's registry entry is removed
\* in that step; the close handler then writes user-status-changed{A, offline}
\* to the connection of every identity that shares a conversation with A and
\* is connected (the registry maps it to an open connection); a send
\* addressed to an identity without a registry entry is written to no
\* connection.
C10_DisconnectCleanup ==
    [][/\ \A c \in Conns :
             (Close(c) /\ userId[c] # Null) => clients'[userId[c]] = NoConn
       /\ \A i \in Handles :
             (IsTask(i) /\ CloseNotify(i))
             => \A u \in Users :
                   (SharesConversation(u, userId[TaskAt(i).conn]) /\ IsOpen(clients[u]))
                   => [to |-> u, conn |-> clients[u],
                       ev |-> StatusChanged(userId[TaskAt(i).conn], "offline")] \in sent'
       /\ \A s \in sent' : clients'[s.to] = NoConn => s.conn = NoConn]_vars

\* a contact was told that an identity without registry entry went offline
C10_Witness ==
    \E s \in sent :
        /\ s.ev.type = "user-status-changed" /\ s.ev.val = "offline"
        /\ s.conn # NoConn
        /\ clients[s.ev.user] = NoConn

Pos(c, type, k) == {n \in DOMAIN inbox[c] : inbox[c][n].type = type /\ inbox[c][n].callId = k}

Before(c, type1, type2, k) ==
    \A n \in Pos(c, type2, k) : \E m \in Pos(c, type1, k) : m < n

\* C9: in the direct conversation of A (connection 1) and B (connection 2):
\* once the start-call handler is through, B was sent incoming-call with the
\* call and A as initiator; once B's accept-call handler is through, both were
\* sent call-accepted{callId, userId: B}; once A's end-call handler is through,
\* both were sent call-ended{callId, endedBy: A, duration} with duration >= 0;
\* each connection was sent these in this order.
C9_HappyPath ==
    \A k \in DOMAIN calls :
        /\ (~InFlight("start-call", k))
           => \E n \in DOMAIN inbox[2] :
                 inbox[2][n] = Ev("incoming-call", "v1", k, "A", Null)
        /\ (calls[k].status \in {"active", "ended"} /\ ~InFlight("accept-call", k))
           => \A c \in {1, 2} : \E n \in DOMAIN inbox[c] :
                 inbox[c][n] = Ev("call-accepted", Null, k, "B", Null)
        /\ (calls[k].status = "ended" /\ ~InFlight("end-call", k))
           => \A c \in {1, 2} : \E n \in DOMAIN inbox[c] :
                 /\ inbox[c][n] = Ev("call-ended", Null, k, "A", calls[k].duration)
                 /\ calls[k].duration >= 0
        /\ \A c \in {1, 2} : Before(c, "call-accepted", "call-ended", k)
        /\ Before(2, "incoming-call", "call-accepted", k)
        /\ Pos(1, "incoming-call", k) = {}

\* both ends were sent call-ended
C9_Witness ==
    \E k \in DOMAIN calls : Pos(1, "call-ended", k) # {} /\ Pos(2, "call-ended", k) # {}

\* ------------------------------------------------------- typing lifecycle
\* The state after every connection was opened and those of online had their
\* user-online (with the identity BoundId gives them) handled, with a number
\* of events to come, the inboxes kept or not, and a number of handlers that
\* may be suspended at a time.  Bound: every connection has sent user-online.
\* InitRace: up to MaxRace handlers, inboxes kept.
BoundSome(online, events, rec, handlers) ==
    /\ connState = [c \in Conns |-> "open"]
    /\ userId = [c \in Conns |-> IF c \in online THEN BoundId(c) ELSE Null]
    /\ clients = [u \in Users |-> IF \E c \in online : BoundId(c) = u
                                  THEN CHOOSE c \in online : BoundId(c) = u ELSE NoConn]
    /\ userStatus = [u \in Users |-> IF \E c \in online : BoundId(c) = u
                                     THEN "online" ELSE "offline"]
    /\ isTyping = [v \in Convs |-> [u \in Participants(v) |-> FALSE]]
    /\ receipts = {}
    /\ calls = <<>>
    /\ callParts = EmptyBag
    /\ now = 0
    /\ budget = events
    /\ tasks = NoTasks
    /\ sent = {}
    /\ inbox = [c \in Conns |-> <<>>]
    /\ recording = rec
    /\ cap = handlers
    /\ messages = StoredMessages
    /\ http = NoHttp
    /\ box = NewBox("v1")
    /\ link = NewLink
    /\ endpoint = NewEndpoint
    /\ ghost = NoHistory

Bound(events, rec, handlers) == BoundSome(Conns, events, rec, handlers)

InitRace == Bound(MaxEvents, TRUE, MaxRace)

\* A's client (connection 1) sends typing{v1, true}, then typing{v1, false};
\* the other clients type afterwards
ClientTypeOn == budget = MaxEvents /\ RecvTyping(1, "v1", TRUE)

ClientTypeOff == budget = MaxEvents - 1 /\ RecvTyping(1, "v1", FALSE)

OtherTyping(c, v, b) == c # 1 /\ budget < MaxEvents - 1 /\ RecvTyping(c, v, b)

NextTyping ==
    \/ ClientTypeOn
    \/ ClientTypeOff
    \/ \E c \in Conns, v \in Convs, b \in BOOLEAN : OtherTyping(c, v, b)
    \/ \E i \in Handles : TypingWrite(i)
    \/ \E i \in Handles : TypingBroadcast(i)

SpecTyping == InitRace /\ [][NextTyping]_vars

IsTypingStatus(e, u, v) == e.type = "typing-status" /\ e.user = u /\ e.conv = v

\* the isTyping values of the typing-status{v, u} events connection c was sent
RECURSIVE TypingSeen(_, _, _, _)
TypingSeen(c, u, v, n) ==
    IF n = 0 THEN <<>>
    ELSE IF IsTypingStatus(inbox[c][n], u, v)
         THEN Append(TypingSeen(c, u, v, n - 1), inbox[c][n].val)
         ELSE TypingSeen(c, u, v, n - 1)

\* C11: after A's typing{v1, true} and typing{v1, false}, B (connection 2)
\* is sent typing-status{v1, A} with true, then with false, once each: at any
\* time B has been sent a prefix of <<true, false>>, all of it once A's two
\* handlers are through; A's connection is sent none of them.
C11_TypingLifecycle ==
    /\ \A n \in DOMAIN inbox[1] : ~IsTypingStatus(inbox[1][n], "A", "v1")
    /\ TypingSeen(2, "A", "v1", Len(inbox[2])) \in {<<>>, <<TRUE>>, <<TRUE, FALSE>>}
    /\ (budget <= MaxEvents - 2 /\ tasks[1] = <<>>)
       => TypingSeen(2, "A", "v1", Len(inbox[2])) = <<TRUE, FALSE>>

\* ------------------------------------------------------------ silent sends
\* C12: a send addressed to an identity that has no registry entry, or whose
\* registered connection is not open, is written to no connection; a relay to
\* such a target writes nothing at all, so nothing goes back to the
\* originator; a step that sends leaves the registry as it was.
C12_SilentSend ==
    [][/\ \A s \in sent' : ~IsOpen(clients[s.to]) => s.conn = NoConn
       /\ \A c \in Conns, target \in Users :
             (RecvRelay(c, "webrtc-offer", target) /\ ~IsOpen(clients[target]))
             => \A s \in sent' : s.conn = NoConn
       /\ sent' # {} => (clients' = clients /\ connState' = connState)]_vars

\* a send was addressed to an identity whose registry entry holds a closed
\* connection, and one to an identity without entry
C12_Witness ==
    /\ \E s \in sent : clients[s.to] # NoConn /\ ~IsOpen(clients[s.to])
    /\ \E s \in sent : clients[s.to] = NoConn

\* ---------------------------------------------------------- one broadcast
\* the identities one broadcast lists
Listed == {s.to : s \in sent}

\* C13: of one broadcast, the registered open connection of each listed
\* identity is written exactly one copy of the event, and the registered
\* open connection of an identity that is not listed is written none.
C13_BroadcastOnce ==
    sent # {} =>
        \A u \in Users :
            IsOpen(clients[u]) =>
                Copies(sent, clients[u]) = (IF u \in Listed THEN 1 ELSE 0)

\* ------------------------------------------------------- starting a call
\* POST /api/calls by session user u with body {conversationId}, up to the
\* await of createCall
HttpPostCall(u, v) ==
    /\ NumTasks < cap
    /\ Len(calls) + Creating < MaxCalls
    /\ Arrive
    /\ Suspend(CallTask("post-call", NoConn, "create", v, Null, u, 0, NoCall))
    /\ NoEmit
    /\ UNCHANGED <<hubVars, calls, callParts, now, ghost>>

\* POST: createCall completes; addCallParticipant(call.id, userId) is issued
PostCreate(i) ==
    /\ IsTask(i)
    /\ TaskAt(i).type = "post-call" /\ TaskAt(i).pc = "create"
    /\ LET t == TaskAt(i)
           call == [NoCall EXCEPT !.conversationId = t.conv, !.initiatorId = t.u,
                                  !.status = "initiated"]
       IN /\ calls' = Append(calls, call)
          /\ Resume(i, [t EXCEPT !.pc = "join", !.callId = Len(calls) + 1, !.call = call])
    /\ NoEmit
    /\ UNCHANGED <<hubVars, callParts, now, budget, ghost>>

\* POST: addCallParticipant completes; getUser, then getParticipants are awaited
PostJoin(i) ==
    /\ IsTask(i)
    /\ TaskAt(i).type = "post-call" /\ TaskAt(i).pc = "join"
    /\ LET t == TaskAt(i)
       IN /\ callParts' = callParts (+) SetToBag({PartRow(t.callId, t.u)})
          /\ Resume(i, [t EXCEPT !.pc = "broadcast"])
    /\ NoEmit
    /\ UNCHANGED <<hubVars, calls, now, budget, ghost>>

\* POST: getParticipants completes; incoming-call goes to the others
PostBroadcast(i) ==
    /\ IsTask(i)
    /\ TaskAt(i).type = "post-call" /\ TaskAt(i).pc = "broadcast"
    /\ LET t == TaskAt(i)
       IN Emit(broadcastToConversation(t.conv,
                   Ev("incoming-call", t.conv, t.callId, t.u, Null), t.u))
    /\ Finish(i)
    /\ UNCHANGED <<hubVars, callVars, ghost, budget>>

\* Calls are started, over the socket or over HTTP, and accepted.
NextStart ==
    \/ Tick
    \/ \E c \in Conns, v \in Convs : RecvStartCall(c, v)
    \/ \E i \in Handles : StartCreate(i)
    \/ \E i \in Handles : StartJoin(i)
    \/ \E i \in Handles : StartBroadcast(i)
    \/ \E u \in Users, v \in Convs : HttpPostCall(u, v)
    \/ \E i \in Handles : PostCreate(i)
    \/ \E i \in Handles : PostJoin(i)
    \/ \E i \in Handles : PostBroadcast(i)
    \/ \E c \in Conns, k \in 1..MaxCalls : RecvCallEvent(c, "accept-call", k)
    \/ \E i \in Handles : AcceptGet(i)
    \/ \E i \in Handles : AcceptJoin(i)
    \/ \E i \in Handles : AcceptUpdate(i)
    \/ \E i \in Handles : AcceptBroadcast(i)

InitStart == Bound(MaxStartEvents, FALSE, MaxTasks)

SpecStart == InitStart /\ [][NextStart]_vars

\* the call a start handler on behalf of identity a creates for conversation v
NewCall(v, a) ==
    [NoCall EXCEPT !.conversationId = v, !.initiatorId = a, !.status = "initiated"]

\* the handler at i is a start-call (or POST /api/calls) of identity a
StartsFor(i, a) ==
    /\ IsTask(i)
    /\ TaskAt(i).type \in {"start-call", "post-call"}
    /\ a = IF i[1] = NoConn THEN TaskAt(i).u ELSE userId[i[1]]

\* C14: the handler of a start-call from bound identity a for conversation v
\* adds exactly one call, with status initiated and initiator a, leaving the
\* other calls and all participants as they are; it then adds one
\* CallParticipant row, of a for that call, leaving the calls as they are; it
\* then sends incoming-call with that call and a to every participant of v
\* except a, on the connection of each one that is connected, and to nobody
\* else.
C14_StartCall ==
    [][\A i \in Handles, a \in Users :
          StartsFor(i, a) =>
              LET t == TaskAt(i)
              IN /\ (StartCreate(i) \/ PostCreate(i))
                    => /\ calls' = Append(calls, NewCall(t.conv, a))
                       /\ callParts' = callParts
                       /\ sent' = {}
                 /\ (StartJoin(i) \/ PostJoin(i))
                    => /\ calls' = calls
                       /\ t.callId \in DOMAIN calls /\ calls[t.callId].initiatorId = a
                       /\ callParts' = callParts (+) SetToBag({PartRow(t.callId, a)})
                       /\ sent' = {}
                 /\ (StartBroadcast(i) \/ PostBroadcast(i))
                    => /\ calls' = calls /\ callParts' = callParts
                       /\ sent' = { [to |-> p,
                                     conn |-> IF IsOpen(clients[p]) THEN clients[p] ELSE NoConn,
                                     ev |-> Ev("incoming-call", t.conv, t.callId, a, Null)]
                                    : p \in Participants(t.conv) \ {a} }]_vars

\* incoming-call reached a connected participant while another was not connected
C14_Witness ==
    /\ \E s \in sent : s.ev.type = "incoming-call" /\ s.conn # NoConn
    /\ \E s \in sent : s.ev.type = "incoming-call" /\ s.conn = NoConn

\* ------------------------------------------------------ accepting a call
\* The bound connections after a has started call 1 in conv and the call has
\* possibly been set ringing (PATCH) or been accepted by the others at time 0.
\* Called: A has called B in v1.
CalledIn(conv, a, status, events, handlers) ==
    /\ connState = [c \in Conns |-> "open"]
    /\ userId = [c \in Conns |-> BoundId(c)]
    /\ clients = [u \in Users |-> IF \E c \in Conns : BoundId(c) = u
                                  THEN CHOOSE c \in Conns : BoundId(c) = u ELSE NoConn]
    /\ userStatus = [u \in Users |-> IF \E c \in Conns : BoundId(c) = u
                                     THEN "online" ELSE "offline"]
    /\ isTyping = [v \in Convs |-> [u \in Participants(v) |-> FALSE]]
    /\ receipts = {}
    /\ calls = << [NewCall(conv, a) EXCEPT
                     !.status = status,
                     !.startedAt = IF status = "active" THEN 0 ELSE Nil] >>
    /\ callParts = SetToBag({PartRow(1, a)} \cup
                            (IF status = "active"
                             THEN {PartRow(1, u) : u \in Participants(conv) \ {a}} ELSE {}))
    /\ now = 0
    /\ budget = events
    /\ tasks = NoTasks
    /\ sent = {}
    /\ inbox = [c \in Conns |-> <<>>]
    /\ recording = FALSE
    /\ cap = handlers
    /\ messages = StoredMessages
    /\ http = NoHttp
    /\ box = NewBox("v1")
    /\ link = NewLink
    /\ endpoint = NewEndpoint
    /\ ghost = [NoHistory EXCEPT !.wasActive = IF status = "active" THEN {1} ELSE {}]

Called(status, events, handlers) == CalledIn("v1", "A", status, events, handlers)

InitCalled ==
    \E status \in {"initiated", "ringing", "active"} :
        Called(status, MaxStartEvents, MaxTasks)

NextAccept ==
    \/ Tick
    \/ \E c \in Conns, k \in 1..MaxCalls : RecvCallEvent(c, "accept-call", k)
    \/ \E i \in Handles : AcceptGet(i)
    \/ \E i \in Handles : AcceptJoin(i)
    \/ \E i \in Handles : AcceptUpdate(i)
    \/ \E i \in Handles : AcceptBroadcast(i)

SpecAccept == InitCalled /\ [][NextAccept]_vars

\* the handler at i is the accept-call of recipient b, which read its call in
\* status initiated or ringing
AcceptsFor(i, b) ==
    /\ IsTask(i)
    /\ TaskAt(i).type = "accept-call"
    /\ b = userId[i[1]]
    /\ TaskAt(i).call.status \in {"initiated", "ringing"}
    /\ TaskAt(i).call.initiatorId # b

\* C15: the handler of an accept-call from recipient b that found its call in
\* status initiated or ringing adds one CallParticipant row of b for the
\* call, then sets the call's status to active and its startedAt to the time
\* it read, then sends call-accepted{callId, userId: b} to every participant
\* of the call's conversation, b included, on the connection of each one that
\* is connected.
C15_AcceptCall ==
    [][\A i \in Handles, b \in Users :
          AcceptsFor(i, b) =>
              LET t == TaskAt(i)
              IN /\ AcceptJoin(i)
                    => /\ callParts' = callParts (+) SetToBag({PartRow(t.callId, b)})
                       /\ calls' = calls
                       /\ sent' = {}
                 /\ AcceptUpdate(i)
                    => /\ calls' = [calls EXCEPT ![t.callId].status = "active",
                                                 ![t.callId].startedAt = t.val]
                       /\ t.val \in 0..now
                       /\ callParts' = callParts
                       /\ sent' = {}
                 /\ AcceptBroadcast(i)
                    => /\ calls' = calls /\ callParts' = callParts
                       /\ sent' = { [to |-> p,
                                     conn |-> IF IsOpen(clients[p]) THEN clients[p] ELSE NoConn,
                                     ev |-> Ev("call-accepted", Null, t.callId, b, Null)]
                                    : p \in Participants(t.call.conversationId) }]_vars

\* B accepted call 1 after the clock moved: the call is active, B
\* has a row, and call-accepted went to A and to B
C15_Witness ==
    /\ calls[1].status = "active" /\ calls[1].startedAt > 0
    /\ BagIn(PartRow(1, "B"), callParts)
    /\ \A c \in {1, 2} :
          \E s \in sent : s.conn = c /\ s.ev = Ev("call-accepted", Null, 1, "B", Null)

\* --------------------------------------------------------- ending a call
\* C16: a step that takes a call to ended leaves it with endedAt stamped and
\* with duration = floor((endedAt - startedAt) / 1000), 0 for a call that
\* never started; every call-ended names who ended the call and carries a
\* duration.
C16_EndedStamped ==
    [][/\ \A k \in DOMAIN calls :
             (calls[k].status # "ended" /\ calls'[k].status = "ended")
             => /\ calls'[k].endedAt # Nil
                /\ calls'[k].duration = CallDuration(calls'[k].startedAt, calls'[k].endedAt)
       /\ \A s \in sent' :
             s.ev.type = "call-ended" => (s.ev.user \in Users /\ s.ev.val >= 0)]_vars

\* ------------------------------------------------------- declining a call
\* u has a call_participants row for call k
Joined(k, u) == \E r \in BagToSet(callParts) : r.callId = k /\ r.userId = u

\* C17: a decline-call changes a call's status only if the call is in
\* initiated or ringing and the sender is neither its initiator nor one of
\* its CallParticipants.
C17_DeclineGuards ==
    [][\A i \in Handles :
          (/\ IsTask(i)
           /\ TaskAt(i).type = "decline-call"
           /\ DeclineUpdate(i)
           /\ calls'[TaskAt(i).callId].status # calls[TaskAt(i).callId].status)
          => /\ calls[TaskAt(i).callId].status \in {"initiated", "ringing"}
             /\ userId[i[1]] # calls[TaskAt(i).callId].initiatorId
             /\ ~Joined(TaskAt(i).callId, userId[i[1]])]_vars

\* ---------------------------------------------------------- media toggles
ToggleTypes == {"toggle-mute", "toggle-video", "toggle-screen-share"}

\* the column a toggle writes
FlagOf(type) ==
    IF type = "toggle-mute" THEN "isMuted"
    ELSE IF type = "toggle-video" THEN "isVideoOff" ELSE "isScreenSharing"

\* storage.updateCallParticipant with every flag written (an undefined one as
\* false)
SetFlag_AllColumns(rows, callId, u, flag, b) ==
    BagOfAll(LAMBDA r : IF r.callId = callId /\ r.userId = u
                        THEN [PartRow(callId, u) EXCEPT ![flag] = b]
                        ELSE r,
             rows)

\* storage.updateCallParticipant(callId, userId, {flag: b}): every row of
\* (callId, userId) gets the flag; the columns given as undefined stay
SetFlag(rows, callId, u, flag, b) ==
    BagOfAll(LAMBDA r : IF r.callId = callId /\ r.userId = u
                        THEN [r EXCEPT ![flag] = b]
                        ELSE r,
             rows)

\* case "toggle-mute" / "toggle-video" / "toggle-screen-share" with the flag
\* value b in the payload, up to the await of updateCallParticipant
RecvToggle(c, type, k, b) ==
    /\ CanReceiveCallEvent(c)
    /\ Arrive
    /\ Suspend(CallTask(type, c, "update", Null, b, userId[c], k, NoCall))
    /\ NoEmit
    /\ UNCHANGED <<hubVars, calls, callParts, now, ghost>>

\* toggle: updateCallParticipant completes; getCall is issued
ToggleUpdate(i) ==
    /\ IsTask(i)
    /\ TaskAt(i).type \in ToggleTypes /\ TaskAt(i).pc = "update"
    /\ LET t == TaskAt(i)
       IN /\ callParts' = SetFlag(callParts, t.callId, t.u, FlagOf(t.type), t.val)
          /\ Resume(i, [t EXCEPT !.pc = "get"])
    /\ NoEmit
    /\ UNCHANGED <<hubVars, calls, now, budget, ghost>>

\* toggle: getCall completes; broadcastToConversation awaits getParticipants
ToggleGet(i) ==
    /\ IsTask(i)
    /\ TaskAt(i).type \in ToggleTypes /\ TaskAt(i).pc = "get"
    /\ LET t == TaskAt(i)
           call == getCall(t.callId)
       IN IF call.conversationId # Null
          THEN Resume(i, [t EXCEPT !.pc = "broadcast", !.call = call, !.u = userId[t.conn]])
          ELSE Finish(i)
    /\ NoEmit
    /\ UNCHANGED <<hubVars, callVars, ghost, budget>>

\* the payload of participant-media-changed: the flag of the toggle's payload
MediaChange(type, b) == [flag |-> FlagOf(type), on |-> b]

\* toggle: getParticipants completes; participant-media-changed goes to the others
ToggleBroadcast(i) ==
    /\ IsTask(i)
    /\ TaskAt(i).type \in ToggleTypes /\ TaskAt(i).pc = "broadcast"
    /\ LET t == TaskAt(i)
       IN Emit(broadcastToConversation(t.call.conversationId,
                   Ev("participant-media-changed", Null, t.callId, t.u,
                      MediaChange(t.type, t.val)),
                   t.u))
    /\ Finish(i)
    /\ UNCHANGED <<hubVars, callVars, ghost, budget>>

\* Media toggles on a call that was started, with accept-call adding rows.
NextToggle ==
    \/ \E c \in Conns, type \in ToggleTypes, k \in 1..MaxCalls, b \in BOOLEAN :
          RecvToggle(c, type, k, b)
    \/ \E i \in Handles : ToggleUpdate(i)
    \/ \E i \in Handles : ToggleGet(i)
    \/ \E i \in Handles : ToggleBroadcast(i)
    \/ \E c \in Conns, k \in 1..MaxCalls : RecvCallEvent(c, "accept-call", k)
    \/ \E i \in Handles : AcceptGet(i)
    \/ \E i \in Handles : AcceptJoin(i)
    \/ \E i \in Handles : AcceptUpdate(i)
    \/ \E i \in Handles : AcceptBroadcast(i)

SpecToggle == InitCalled /\ [][NextToggle]_vars

\* the rows of (k, u) in a bag of rows, and the other rows
RowsOf(rows, k, u) ==
    [r \in {x \in BagToSet(rows) : x.callId = k /\ x.userId = u} |-> rows[r]]

RowsBeside(rows, k, u) ==
    [r \in {x \in BagToSet(rows) : ~(x.callId = k /\ x.userId = u)} |-> rows[r]]

\* rows with one flag put out of sight
Blank(rows, flag) == BagOfAll(LAMBDA r : [r EXCEPT ![flag] = FALSE], rows)

\* C18: the handler of a toggle from x for call k with flag value b leaves
\* every call as it is; its update gives the matching flag of x's rows for k
\* the value b, leaves their other two flags and the rows of everybody else as
\* they are and sends nothing; its broadcast changes no row and sends
\* participant-media-changed{callId: k, userId: x, flag: b} to the
\* conversation's participants other than x, and to nobody else.
C18_ToggleFrame ==
    [][\A i \in Handles :
          (IsTask(i) /\ TaskAt(i).type \in ToggleTypes) =>
              LET t == TaskAt(i)
                  x == userId[i[1]]
                  flag == FlagOf(t.type)
              IN /\ (ToggleUpdate(i) \/ ToggleGet(i) \/ ToggleBroadcast(i)) => calls' = calls
                 /\ ToggleUpdate(i)
                    => /\ \A r \in DOMAIN RowsOf(callParts', t.callId, x) : r[flag] = t.val
                       /\ Blank(RowsOf(callParts', t.callId, x), flag)
                            = Blank(RowsOf(callParts, t.callId, x), flag)
                       /\ RowsBeside(callParts', t.callId, x) = RowsBeside(callParts, t.callId, x)
                       /\ sent' = {}
                 /\ ToggleGet(i) => (callParts' = callParts /\ sent' = {})
                 /\ ToggleBroadcast(i)
                    => /\ callParts' = callParts
                       /\ sent' = { [to |-> p,
                                     conn |-> IF IsOpen(clients[p]) THEN clients[p] ELSE NoConn,
                                     ev |-> Ev("participant-media-changed", Null, t.callId, x,
                                               MediaChange(t.type, t.val))]
                                    : p \in Participants(calls[t.callId].conversationId) \ {x} }]_vars

\* B, in the active call with A, has switched the video off after muting: both
\* flags are set in B's row, A's row is as it was, and A was told
C18_Witness ==
    /\ \E r \in BagToSet(callParts) :
          r.callId = 1 /\ r.userId = "B" /\ r.isMuted /\ r.isVideoOff /\ ~r.isScreenSharing
    /\ BagIn(PartRow(1, "A"), callParts)
    /\ calls[1].status = "active"
    /\ \E s \in sent :
          /\ s.conn = 1
          /\ s.ev = Ev("participant-media-changed", Null, 1, "B",
                       MediaChange("toggle-video", TRUE))

\* ------------------------------------------------------------------ relay
\* what a relayed message carries as offer, answer or candidate (Null: the
\* field is missing)
Bodies == {"sdp", "sdp2", Null}

\* a relay case whose event keeps the sender out
RecvRelayWith_Anonymous(c, type, target, body) ==
    /\ connState[c] = "open"
    /\ IF userId[c] # Null /\ body # Null
       THEN Emit(broadcastToUsers({target}, Ev(type, Null, Null, Null, body)))
       ELSE NoEmit
    /\ UNCHANGED <<connState, userId, clients, userStatus, isTyping, receipts, tasks,
                   recording, cap, messages, http, box, link, endpoint, callVars, ghost, budget>>

\* case "ice-candidate" / "webrtc-offer" / "webrtc-answer" with the content
\* of the payload: no await
RecvRelayWith(c, type, target, body) ==
    /\ connState[c] = "open"
    /\ IF userId[c] # Null /\ body # Null
       THEN Emit(broadcastToUsers({target}, Ev(type, Null, Null, userId[c], body)))
       ELSE NoEmit
    /\ UNCHANGED <<connState, userId, clients, userStatus, isTyping, receipts, tasks,
                   recording, cap, messages, http, box, link, endpoint, callVars, ghost, budget>>

\* Relays of every type and content between open connections, some of which
\* have sent user-online, while connections close.
NextRelay ==
    \/ \E c \in Conns, type \in RelayTypes, target \in Users, body \in Bodies :
          RecvRelayWith(c, type, target, body)
    \/ \E c \in Conns : Close(c)
    \/ \E i \in Handles : CloseStatus(i)
    \/ \E i \in Handles : CloseNotify(i)

InitRelay == \E online \in SUBSET Conns : BoundSome(online, 0, FALSE, MaxTasks)

SpecRelay == InitRelay /\ [][NextRelay]_vars

\* C19: a relayed message of type ty from a connection bound to x for target
\* t with content body makes at most one send attempt, addressed to t, which
\* is written to the connection registered for t or to none; the event has
\* the same type, x as sender and the content as it came; the registry, the
\* connections and the durable state stay as they are.
C19_PureRelay ==
    [][\A c \in Conns, ty \in RelayTypes, target \in Users, body \in Bodies :
          RecvRelayWith(c, ty, target, body)
          => /\ Cardinality(sent') <= 1
             /\ \A s \in sent' :
                   /\ s.to = target
                   /\ s.conn \in {clients[target], NoConn}
                   /\ s.ev = Ev(ty, Null, Null, userId[c], body)
             /\ UNCHANGED <<clients, connState, userId, userStatus, isTyping, receipts,
                            calls, callParts>>]_vars

\* an answer was relayed to its target's connection
C19_Witness ==
    \E s \in sent :
        /\ s.ev.type = "webrtc-answer" /\ s.ev.val = "sdp2"
        /\ s.conn # NoConn /\ s.conn = clients[s.to]
        /\ \E c \in Conns : c # s.conn /\ userId[c] = s.ev.user

\* ------------------------------------------------------ unhandled messages
\* Messages no case of the switch handles: data that JSON.parse rejects
\* (SyntaxError), the JSON text null (destructuring null throws a TypeError),
\* an object without type and an object whose type no case names.
Frames == {"not-json", "null", "no-type", "unknown-type"}

\* an unhandled message after which the connection has lost its identity
RecvUnhandled_Unbinds(c, frame) ==
    /\ connState[c] = "open"
    /\ frame \in Frames
    /\ userId' = [userId EXCEPT ![c] = Null]
    /\ ghost' = [ghost EXCEPT !.unhandled = <<c, userId[c]>>]
    /\ NoEmit
    /\ UNCHANGED <<connState, clients, userStatus, isTyping, receipts, tasks,
                   recording, cap, messages, http, box, link, endpoint, callVars, budget>>

\* A message that throws is caught and logged (console.error); one that
\* parses leaves the switch without entering a case.  Neither awaits.  The
\* history keeps the connection and the identity it had then.
RecvUnhandled(c, frame) ==
    /\ connState[c] = "open"
    /\ frame \in Frames
    /\ ghost' = [ghost EXCEPT !.unhandled = <<c, userId[c]>>]
    /\ NoEmit
    /\ UNCHANGED <<connState, userId, clients, userStatus, isTyping, receipts, tasks,
                   recording, cap, messages, http, box, link, endpoint, callVars, budget>>

\* Connections, some of which have sent user-online, receive unhandled
\* messages and, before and after them, user-online and relays.
NextUnhandled ==
    \/ \E c \in Conns, frame \in Frames : RecvUnhandled(c, frame)
    \/ \E c \in Conns, u \in LoginIds : RecvUserOnline(c, u)
    \/ \E i \in Handles : UserOnlineStatus(i)
    \/ \E i \in Handles : UserOnlineNotify(i)
    \/ \E c \in Conns, target \in Users : RecvRelay(c, "webrtc-offer", target)

InitUnhandled == \E online \in SUBSET Conns : BoundSome(online, MaxUnhandledEvents, FALSE, MaxTasks)

SpecUnhandled == InitUnhandled /\ [][NextUnhandled]_vars

\* C20: a message that does not parse, or whose type no case names, changes
\* no registry entry and no row, suspends no handler and sends nothing; the
\* connection stays open and keeps its identity; a user-online that the
\* connection sends afterwards binds it as any user-online does.
C20_UnhandledIgnored ==
    [][/\ \A c \in Conns, frame \in Frames :
             RecvUnhandled(c, frame)
             => /\ sent' = {}
                /\ connState'[c] = "open"
                /\ UNCHANGED <<clients, connState, userId, userStatus, isTyping, receipts,
                               calls, callParts, tasks>>
       /\ \A c \in Conns, u \in LoginIds :
             (ghost.unhandled[1] = c /\ RecvUserOnline(c, u))
             => /\ userId'[c] = u
                /\ u # Null => clients'[u] = c]_vars

\* a connection that had no identity when its unhandled message came is
\* still open and has bound itself since, and its identity was relayed to
C20_Witness ==
    \E c \in Conns :
        /\ ghost.unhandled = <<c, Null>>
        /\ connState[c] = "open"
        /\ userId[c] # Null /\ clients[userId[c]] = c
        /\ \E s \in sent : s.ev.type = "webrtc-offer" /\ s.conn = c

\* --------------------------------------------------------- message routes
\* The routes that write a message and broadcast: POST
\* /api/conversations/:id/messages (create), PATCH and DELETE
\* /api/messages/:id (edit, delete), POST and DELETE /api/messages/:id/pin
\* (pin, unpin), POST /api/messages/:id/reactions and DELETE
\* /api/messages/:id/reactions/:emoji (react, unreact), POST
\* /api/messages/:id/forward (forward), POST /api/messages/:id/read (read).
MsgOps == {"create", "edit", "delete", "pin", "unpin", "react", "unreact", "forward", "read"}

\* create and forward answer 201 and then call broadcastToConversation
\* without awaiting it, with .catch(console.error); the other routes await it
\* inside their try block and answer afterwards
RespondsFirst(op) == op \in {"create", "forward"}

\* what a route awaits between its write and the broadcast:
\* getMessageWithSender, getMessageReactions or getUser; delete awaits nothing
LoadsAfterWrite(op) == op # "delete"

EventOf(op) ==
    CASE op \in {"create", "forward"} -> "new-message"
      [] op = "edit" -> "message-updated"
      [] op = "delete" -> "message-deleted"
      [] op = "pin" -> "message-pinned"
      [] op = "unpin" -> "message-unpinned"
      [] op \in {"react", "unreact"} -> "message-reactions-updated"
      [] op = "read" -> "message-read"

StatusOf(op) ==
    CASE op \in {"create", "forward"} -> 201
      [] op \in {"delete", "unpin", "unreact"} -> 204
      [] OTHER -> 200

\* conversations.type: v1 is direct, v2 a group (none of whose participants
\* has the role admin or owner)
IsGroup(v) == v = "v2"

\* The checks a route makes before its write, for session user u, message m
\* and conversation v (the target of create and forward, else the message's).
Allowed(op, u, m, v) ==
    IF op = "create" THEN m = 0
    ELSE /\ m \in DOMAIN messages
         /\ op # "forward" => v = messages[m].conversationId
         /\ CASE op \in {"edit", "delete"} -> messages[m].senderId = u \/ isAdmin(u)
              [] op \in {"pin", "unpin"} ->
                    /\ u \in Participants(v) \/ isAdmin(u)
                    /\ IsGroup(v) => isAdmin(u)
              [] op \in {"react", "unreact"} -> TRUE
              [] op = "forward" ->
                    /\ u \in Participants(messages[m].conversationId)
                    /\ u \in Participants(v)
              [] op = "read" -> u \in Participants(v) /\ messages[m].senderId # u

\* a suspended route: msg is the message written, req the request
MsgTask(op, pc, conv, u, msg, req) ==
    [type |-> op, conn |-> NoConn, pc |-> pc, conv |-> conv, u |-> u, msg |-> msg, req |-> req]

\* createMessage / updateMessage / deleteMessage / pinMessage / unpinMessage /
\* addReaction / removeReaction / forwardMessage on the rows of messages
WriteMessage(rows, op, u, m, v) ==
    CASE op = "create" ->
            Append(rows, [conversationId |-> v, senderId |-> u, content |-> "text",
                          deleted |-> FALSE, isPinned |-> FALSE, reactions |-> {},
                          forwardedFromId |-> 0])
      [] op = "forward" ->
            Append(rows, [conversationId |-> v, senderId |-> u, content |-> rows[m].content,
                          deleted |-> FALSE, isPinned |-> FALSE, reactions |-> {},
                          forwardedFromId |-> m])
      [] op = "edit" -> [rows EXCEPT ![m].content = "edited"]
      [] op = "delete" -> [rows EXCEPT ![m].deleted = TRUE, ![m].content = Null]
      [] op = "pin" -> [rows EXCEPT ![m].isPinned = TRUE]
      [] op = "unpin" -> [rows EXCEPT ![m].isPinned = FALSE]
      [] op = "react" -> [rows EXCEPT ![m].reactions = @ \cup {u}]
      [] op = "unreact" -> [rows EXCEPT ![m].reactions = @ \ {u}]
      [] op = "read" -> rows

\* the request of session user u arrives and passes the checks, up to the
\* await of the write
HttpMessage(u, op, m, v) ==
    /\ NumTasks < cap
    /\ Len(messages) < MaxMessages \/ ~RespondsFirst(op)
    /\ Allowed(op, u, m, v)
    /\ Suspend(MsgTask(op, "write", v, u, m, budget))
    /\ Arrive
    /\ NoEmit
    /\ UNCHANGED <<connState, userId, clients, userStatus, isTyping, receipts, recording, cap,
                   messages, http, box, link, endpoint, callVars, ghost>>

\* catch (error): console.error and res.status(500)
Fail(i) ==
    /\ http' = [http EXCEPT !.logged = @ \cup {TaskAt(i).req},
                            !.res = @ \cup {<<TaskAt(i).req, 500>>}]
    /\ Finish(i)
    /\ NoEmit

\* a write whose rejection is swallowed
MsgWrite_Unchecked(i, ok) ==
    /\ IsTask(i)
    /\ TaskAt(i).type \in MsgOps /\ TaskAt(i).pc = "write"
    /\ LET t == TaskAt(i)
       IN IF ok
          THEN /\ messages' = WriteMessage(messages, t.type, t.u, t.msg, t.conv)
               /\ receipts' = IF t.type = "read" THEN receipts \cup {<<t.msg, t.u>>} ELSE receipts
               /\ http' = [http EXCEPT !.written = @ \cup {t.req}]
               /\ Resume(i, [t EXCEPT !.pc = IF LoadsAfterWrite(t.type) THEN "load" ELSE "broadcast",
                                      !.msg = IF RespondsFirst(t.type) THEN Len(messages) + 1 ELSE @])
          ELSE /\ Resume(i, [t EXCEPT !.pc = "broadcast"])
               /\ UNCHANGED <<messages, receipts, http>>
    /\ NoEmit
    /\ UNCHANGED <<connState, userId, clients, userStatus, isTyping, recording, cap,
                   box, link, endpoint, callVars, ghost, budget>>

\* the write completes (ok) or rejects
MsgWrite(i, ok) ==
    /\ IsTask(i)
    /\ TaskAt(i).type \in MsgOps /\ TaskAt(i).pc = "write"
    /\ LET t == TaskAt(i)
       IN IF ok
          THEN /\ messages' = WriteMessage(messages, t.type, t.u, t.msg, t.conv)
               /\ receipts' = IF t.type = "read" THEN receipts \cup {<<t.msg, t.u>>} ELSE receipts
               /\ http' = [http EXCEPT !.written = @ \cup {t.req}]
               /\ Resume(i, [t EXCEPT !.pc = IF LoadsAfterWrite(t.type) THEN "load" ELSE "broadcast",
                                      !.msg = IF RespondsFirst(t.type) THEN Len(messages) + 1 ELSE @])
               /\ NoEmit
          ELSE /\ Fail(i)
               /\ UNCHANGED <<messages, receipts>>
    /\ UNCHANGED <<connState, userId, clients, userStatus, isTyping, recording, cap,
                   box, link, endpoint, callVars, ghost, budget>>

\* the read after the write completes or rejects; create and forward answer
\* 201 here; every route then calls broadcastToConversation, which awaits
\* getParticipants
MsgLoad(i, ok) ==
    /\ IsTask(i)
    /\ TaskAt(i).type \in MsgOps /\ TaskAt(i).pc = "load"
    /\ LET t == TaskAt(i)
       IN IF ok
          THEN /\ http' = IF RespondsFirst(t.type)
                          THEN [http EXCEPT !.res = @ \cup {<<t.req, StatusOf(t.type)>>}]
                          ELSE http
               /\ Resume(i, [t EXCEPT !.pc = "broadcast"])
               /\ NoEmit
          ELSE Fail(i)
    /\ UNCHANGED <<connState, userId, clients, userStatus, isTyping, receipts, recording, cap,
                   messages, box, link, endpoint, callVars, ghost, budget>>

\* getParticipants completes, the event goes to the conversation and the
\* routes that awaited it answer; or it rejects: create and forward log it,
\* the other routes fall into their catch
MsgBroadcast(i, ok) ==
    /\ IsTask(i)
    /\ TaskAt(i).type \in MsgOps /\ TaskAt(i).pc = "broadcast"
    /\ LET t == TaskAt(i)
       IN IF ok
          THEN /\ Emit(broadcastToConversation(t.conv,
                         Ev(EventOf(t.type), t.conv, Null,
                            IF t.type = "read" THEN t.u ELSE Null, t.msg), Null))
               /\ http' = IF RespondsFirst(t.type) THEN http
                          ELSE [http EXCEPT !.res = @ \cup {<<t.req, StatusOf(t.type)>>}]
               /\ Finish(i)
          ELSE IF RespondsFirst(t.type)
               THEN /\ http' = [http EXCEPT !.logged = @ \cup {t.req}]
                    /\ Finish(i)
                    /\ NoEmit
               ELSE Fail(i)
    /\ UNCHANGED <<connState, userId, clients, userStatus, isTyping, receipts, recording, cap,
                   messages, box, link, endpoint, callVars, ghost, budget>>

NextMsg ==
    \/ \E u \in Users, op \in MsgOps, m \in 0..MaxMessages, v \in Convs : HttpMessage(u, op, m, v)
    \/ \E i \in Handles, ok \in BOOLEAN : MsgWrite(i, ok)
    \/ \E i \in Handles, ok \in BOOLEAN : MsgLoad(i, ok)
    \/ \E i \in Handles, ok \in BOOLEAN : MsgBroadcast(i, ok)

InitMsg == Bound(MaxMsgEvents, FALSE, MaxTasks)

SpecMsg == InitMsg /\ [][NextMsg]_vars

\* C21: a message route emits its event only when its own write has
\* completed, never after a write that rejected, and create and forward only
\* when their 201 has been sent; the message a new-message names is stored.
C21_BroadcastAfterWrite ==
    [][\A i \in Handles :
          (MsgBroadcast(i, TRUE) /\ sent' # {})
          => LET t == TaskAt(i)
             IN /\ t.req \in http.written
                /\ t.req \notin http.logged
                /\ RespondsFirst(t.type) => <<t.req, 201>> \in http.res
                /\ \A s \in sent' :
                      /\ s.ev.type = EventOf(t.type)
                      /\ s.ev.val \in DOMAIN messages
                      /\ RespondsFirst(t.type) => messages[s.ev.val].conversationId = s.ev.conv]_vars

\* a request created a message, was answered 201 and its new-message was
\* written to a connection
C21_Witness ==
    /\ \E r \in http.written : <<r, 201>> \in http.res /\ r \notin http.logged
    /\ \E s \in sent : s.ev.type = "new-message" /\ s.conn # NoConn /\ s.ev.val = 2

\* C22: when getParticipants rejects after the route's write has completed,
\* the rows stay as written, the rejection is logged and the request gets no
\* error response.
C22_BroadcastFailureOnlyLogged ==
    [][\A i \in Handles :
          MsgBroadcast(i, FALSE)
          => LET r == TaskAt(i).req
             IN /\ r \in http'.written
                /\ messages' = messages /\ receipts' = receipts
                /\ r \in http'.logged
                /\ <<r, 500>> \notin http'.res]_vars

\* ------------------------------------------------- handlers of one call
\* Call 1 of A to B is initiated; B's client (connection 2) sends accept-call
\* and A's client (connection 1) sends end-call, once each, in either order;
\* up to MaxRace handlers are suspended at a time.
InitCallRace == Called("initiated", MaxStartEvents, MaxRace)

AcceptSeen == (\E t \in AllTasks : t.type = "accept-call") \/ Joined(1, "B")

EndSeen == (\E t \in AllTasks : t.type = "end-call") \/ calls[1].endedAt # Nil

BAccepts ==
    /\ budget > MaxStartEvents - 2 /\ ~AcceptSeen
    /\ RecvCallEvent(2, "accept-call", 1)

AEnds ==
    /\ budget > MaxStartEvents - 2 /\ ~EndSeen
    /\ RecvCallEvent(1, "end-call", 1)

NextCallRace ==
    \/ Tick
    \/ BAccepts
    \/ AEnds
    \/ \E i \in Handles : AcceptGet(i)
    \/ \E i \in Handles : AcceptJoin(i)
    \/ \E i \in Handles : AcceptUpdate(i)
    \/ \E i \in Handles : AcceptBroadcast(i)
    \/ \E i \in Handles : EndGet(i)
    \/ \E i \in Handles : EndUpdate(i)
    \/ \E i \in Handles : EndBroadcast(i)

SpecCallRace == InitCallRace /\ [][NextCallRace]_vars

\* the values new Date() can take
Times == {n * TickMs : n \in 0..MaxTicks}

\* what the accept-call handler, run alone at time t, makes of a call
AcceptAt(call, t) == [call EXCEPT !.status = "active", !.startedAt = t]

\* what the end-call handler, run alone at time t, makes of a call
EndAt(call, t) ==
    [call EXCEPT !.status = "ended", !.endedAt = t,
                 !.duration = CallDuration(call.startedAt, t)]

\* the rows the two handlers leave when one runs after the other has finished
SerialOutcomes(call) ==
    {EndAt(AcceptAt(call, t1), t2) : <<t1, t2>> \in {p \in Times \X Times : p[1] <= p[2]}}
    \cup {AcceptAt(EndAt(call, t1), t2) : <<t1, t2>> \in {p \in Times \X Times : p[1] <= p[2]}}

\* both handlers have run to their end
Settled == AcceptSeen /\ EndSeen /\ NumTasks = 0

\* C23: when accept-call from B and end-call from A for the same call have
\* both been handled, the call's status, startedAt, endedAt and duration are
\* those that one of the two serial orders of the handlers produces.
C23_Serializable ==
    Settled => calls[1] \in SerialOutcomes(NewCall("v1", "A"))

\* ------------------------------------------------ one identity per connection
\* C24: no connection is the registry's value for two different identities.
C24_OneIdentity ==
    \A u1, u2 \in Users :
        (clients[u1] # NoConn /\ clients[u1] = clients[u2]) => u1 = u2

\* ------------------------------------------------- what leaves calls alone
\* An existing call, initiated or active, among the events of the hub:
\* user-online (each connection announcing the identity it has), the close of
\* B's connection, typing, media toggles and relays next to the call events
\* for call 1 and a PATCH /api/calls/1 that ends it.
NextFrame ==
    \/ \E c \in Conns : RecvUserOnline(c, BoundId(c))
    \/ \E i \in Handles : UserOnlineStatus(i)
    \/ \E i \in Handles : UserOnlineNotify(i)
    \/ Close(2)
    \/ \E i \in Handles : CloseStatus(i)
    \/ \E i \in Handles : CloseNotify(i)
    \/ \E c \in Conns : RecvTyping(c, "v1", TRUE)
    \/ \E i \in Handles : TypingWrite(i)
    \/ \E i \in Handles : TypingBroadcast(i)
    \/ \E c \in Conns, type \in ToggleTypes : RecvToggle(c, type, 1, TRUE)
    \/ \E i \in Handles : ToggleUpdate(i)
    \/ \E i \in Handles : ToggleGet(i)
    \/ \E i \in Handles : ToggleBroadcast(i)
    \/ \E c \in Conns : RecvRelay(c, "webrtc-offer", "B")
    \/ \E c \in Conns, type \in CallEvents : RecvCallEvent(c, type, 1)
    \/ \E i \in Handles : AcceptGet(i)
    \/ \E i \in Handles : AcceptJoin(i)
    \/ \E i \in Handles : AcceptUpdate(i)
    \/ \E i \in Handles : AcceptBroadcast(i)
    \/ \E i \in Handles : DeclineGet(i)
    \/ \E i \in Handles : DeclineUpdate(i)
    \/ \E i \in Handles : DeclineBroadcast(i)
    \/ \E i \in Handles : EndGet(i)
    \/ \E i \in Handles : EndUpdate(i)
    \/ \E i \in Handles : EndBroadcast(i)
    \/ \E u \in Users : HttpPatchCall(u, 1, "ended")
    \/ \E i \in Handles : PatchGet(i)
    \/ \E i \in Handles : PatchUpdate(i)
    \/ \E i \in Handles : PatchBroadcast(i)

InitFrame ==
    \E status \in {"initiated", "active"} :
        Called(status, MaxFrameEvents, MaxTasks)

SpecFrame == InitFrame /\ [][NextFrame]_vars

\* the status of every call
StatusOfCalls == [k \in DOMAIN calls |-> calls[k].status]

\* who has joined which call: the (callId, userId) of every call_participants
\* row, with its multiplicity
JoinData == BagOfAll(LAMBDA r : <<r.callId, r.userId>>, callParts)

\* a handler of one of the types is the one that takes the step
StepOf(types) ==
    \/ \E i \in Handles : IsTask(i) /\ TaskAt(i).type \in types
                          /\ (~IsTask(i)' \/ TaskAt(i)' # TaskAt(i))
    \/ \E c \in Sources : Len(tasks'[c]) > Len(tasks[c])
                          /\ tasks'[c][Len(tasks'[c])].type \in types

\* C25: a step that changes the status of call k is the updateCall of an
\* accept-call, decline-call, end-call or PATCH handler for k; the handlers of
\* user-online, close, typing, the media toggles and the relays leave every
\* call's status and the join data of every call as they are.
C25_CallFrame ==
    [][/\ \A k \in DOMAIN calls :
             calls'[k].status # calls[k].status
             => \E i \in Handles :
                   /\ AcceptUpdate(i) \/ DeclineUpdate(i) \/ EndUpdate(i) \/ PatchUpdate(i)
                   /\ TaskAt(i).callId = k
       /\ (calls' # calls \/ callParts' # callParts)
          => \/ StatusOfCalls' = StatusOfCalls /\ JoinData' = JoinData
             \/ /\ ~StepOf({"user-online", "close", "typing"} \cup ToggleTypes)
                /\ ~\E c \in Conns : RecvRelay(c, "webrtc-offer", "B")]_vars

\* B's connection has closed and B is offline while the call is active, and
\* A has muted itself
C25_Witness ==
    /\ connState[2] = "closed" /\ userStatus["B"] = "offline"
    /\ calls[1].status = "active"
    /\ \E r \in DOMAIN callParts : r.userId = "A" /\ r.isMuted

\* ------------------------------------------------------ presence going online
\* the identities that share a conversation with a
Contacts(a) == contactIds(getUserConversations(a), a)

\* C26: the handler of user-online{userId: a} sets a's status to online, and
\* what it sends is user-status-changed{userId: a, status: online}, one copy
\* to the connection of each connected contact of a and none to a's own.
C26_OnlineNotice ==
    [][\A i \in Handles :
          /\ (UserOnlineStatus(i) /\ TaskAt(i).type = "user-online")
             => userStatus'[TaskAt(i).val] = "online"
          /\ UserOnlineNotify(i)
             => LET a == TaskAt(i).val
                IN /\ \A s \in sent' :
                         s.ev = Ev("user-status-changed", Null, Null, a, "online") /\ s.to # a
                   /\ \A u \in Contacts(a) :
                         IsOpen(clients[u]) => Copies(sent', clients[u]) = 1
                   /\ IsOpen(clients[a]) => Copies(sent', clients[a]) = 0]_vars

\* ----------------------------------------------------- unknown call ids
\* Call 1 exists; call events and media toggles name it or a call id that no
\* call has.
CallIds == 1..(MaxCalls + 1)

NextUnknown ==
    \/ \E c \in Conns, type \in CallEvents, k \in CallIds : RecvCallEvent(c, type, k)
    \/ \E c \in Conns, type \in ToggleTypes, k \in CallIds, b \in BOOLEAN :
          RecvToggle(c, type, k, b)
    \/ \E i \in Handles : AcceptGet(i)
    \/ \E i \in Handles : AcceptJoin(i)
    \/ \E i \in Handles : AcceptUpdate(i)
    \/ \E i \in Handles : AcceptBroadcast(i)
    \/ \E i \in Handles : DeclineGet(i)
    \/ \E i \in Handles : DeclineUpdate(i)
    \/ \E i \in Handles : DeclineBroadcast(i)
    \/ \E i \in Handles : EndGet(i)
    \/ \E i \in Handles : EndUpdate(i)
    \/ \E i \in Handles : EndBroadcast(i)
    \/ \E i \in Handles : ToggleUpdate(i)
    \/ \E i \in Handles : ToggleGet(i)
    \/ \E i \in Handles : ToggleBroadcast(i)

SpecUnknown == InitFrame /\ [][NextUnknown]_vars

\* the handler at i was sent a call id that no call has
NamesNoCall(i) ==
    /\ IsTask(i)
    /\ TaskAt(i).type \in CallEvents \cup ToggleTypes
    /\ TaskAt(i).callId \notin DOMAIN calls

\* C27: every step of an accept-call, decline-call, end-call or media toggle
\* handler whose call id no call has leaves calls and call participants as
\* they are and sends nothing; the call events end at their first step, the
\* toggles at their second.
C27_UnknownCallNoop ==
    [][\A i \in Handles :
          (/\ NamesNoCall(i)
           /\ \/ AcceptGet(i) \/ AcceptJoin(i) \/ AcceptUpdate(i) \/ AcceptBroadcast(i)
              \/ DeclineGet(i) \/ DeclineUpdate(i) \/ DeclineBroadcast(i)
              \/ EndGet(i) \/ EndUpdate(i) \/ EndBroadcast(i)
              \/ ToggleUpdate(i) \/ ToggleGet(i) \/ ToggleBroadcast(i))
          => /\ calls' = calls /\ callParts' = callParts
             /\ sent' = {}
             /\ TaskAt(i).pc \in {"get", "update"}
             /\ (TaskAt(i).type \in CallEvents \/ TaskAt(i).pc = "get")
                => Len(tasks'[i[1]]) < Len(tasks[i[1]])]_vars

\* a toggle for a call id that no call has is past its updateCallParticipant
C27_Witness ==
    \E t \in AllTasks :
        /\ t.type \in ToggleTypes /\ t.pc = "get"
        /\ t.callId \notin DOMAIN calls

\* ------------------------------------------------ who may update a call
\* B has called C in the group v2; anybody sends PATCH /api/calls/1 with any
\* status.  A is neither an admin nor a participant of v2.
InitPatch ==
    \E status \in {"initiated", "active"} :
        CalledIn("v2", "B", status, MaxStartEvents, MaxTasks)

NextPatch ==
    \/ \E u \in Users, k \in 1..MaxCalls, status \in CallStatuses : HttpPatchCall(u, k, status)
    \/ \E i \in Handles : PatchGet(i)
    \/ \E i \in Handles : PatchUpdate(i)
    \/ \E i \in Handles : PatchBroadcast(i)

SpecPatch == InitPatch /\ [][NextPatch]_vars

\* the request at i comes from somebody who is neither an admin nor a
\* participant of the conversation of the call it names
Outsider(i) ==
    /\ IsTask(i)
    /\ TaskAt(i).type = "patch-call"
    /\ TaskAt(i).callId \in DOMAIN calls
    /\ ~isAdmin(TaskAt(i).u)
    /\ TaskAt(i).u \notin Participants(calls[TaskAt(i).callId].conversationId)

\* C28: no step of a PATCH /api/calls/:id sent by somebody who is neither an
\* admin nor a participant of the call's conversation changes a call or
\* sends anything, whatever status the body carries.
C28_PatchAuthorised ==
    [][\A i \in Handles :
          (Outsider(i) /\ (PatchGet(i) \/ PatchUpdate(i) \/ PatchBroadcast(i)))
          => calls' = calls /\ sent' = {}]_vars

\* ------------------------------------------------- the persisted typing flag
\* PATCH /api/conversations/:conversationId/participants/:userId by any
\* session user, with a body that carries isTyping: b, up to the await of
\* updateParticipant (the route makes no check of the session user)
HttpPatchParticipant(v, p, b) ==
    /\ NumTasks < cap
    /\ Suspend(Task("patch-participant", NoConn, "update", v, b, p))
    /\ Arrive
    /\ NoEmit
    /\ UNCHANGED <<connState, userId, clients, userStatus, isTyping, receipts, recording, cap,
                   messages, http, box, link, endpoint, callVars, ghost>>

\* updateParticipant completes: .set(req.body) on the row of (conversationId,
\* userId), if there is one; 204
PatchParticipantUpdate(i) ==
    /\ IsTask(i)
    /\ TaskAt(i).type = "patch-participant" /\ TaskAt(i).pc = "update"
    /\ LET t == TaskAt(i)
       IN isTyping' = IF t.u \in Participants(t.conv)
                      THEN [isTyping EXCEPT ![t.conv][t.u] = t.val]
                      ELSE isTyping
    /\ Finish(i)
    /\ NoEmit
    /\ UNCHANGED <<connState, userId, clients, userStatus, receipts, recording, cap,
                   messages, http, box, link, endpoint, callVars, ghost, budget>>

\* Bound connections type, close and let time pass; participants' rows are
\* updated over HTTP.
NextTypingFlag ==
    \/ Tick
    \/ \E c \in Conns, v \in Convs, b \in BOOLEAN : RecvTyping(c, v, b)
    \/ \E i \in Handles : TypingWrite(i)
    \/ \E i \in Handles : TypingBroadcast(i)
    \/ \E c \in Conns : Close(c)
    \/ \E i \in Handles : CloseStatus(i)
    \/ \E i \in Handles : CloseNotify(i)
    \/ \E v \in Convs, p \in Users, b \in BOOLEAN : HttpPatchParticipant(v, p, b)
    \/ \E i \in Handles : PatchParticipantUpdate(i)

InitTypingFlag == Bound(MaxStartEvents, FALSE, MaxTasks)

SpecTypingFlag == InitTypingFlag /\ [][NextTypingFlag]_vars

\* C29: a step that changes the typing flag of (v, a) is the
\* updateTypingStatus of a typing event that a sent for v, and it sets the
\* flag to the isTyping of that event; time passing and the close of a's
\* connection leave it as it is.
C29_TypingFlagFrame ==
    [][\A v \in Convs : \A a \in Participants(v) :
          isTyping'[v][a] # isTyping[v][a]
          => \E i \in Handles :
                /\ TypingWrite(i)
                /\ TaskAt(i).conv = v /\ TaskAt(i).u = a
                /\ isTyping'[v][a] = TaskAt(i).val]_vars

\* ------------------------------------------------- the client's message box
\* What the hub leaves alone while the page acts.
BoxStep(b) ==
    /\ box' = b
    /\ UNCHANGED <<connState, userId, clients, userStatus, isTyping, receipts, calls, callParts,
                   now, budget, tasks, sent, inbox, recording, cap, messages, http, link, endpoint, ghost>>

\* clearTimeout(typingTimeoutRef.current): the timer the ref names is dropped
\* if it is still pending; the ref itself keeps its value
ClearTypingTimeout(b) ==
    LET Other(t) == t.id # b.ref
    IN [b EXCEPT !.timers = SelectSeq(@, Other)]

\* onTyping(isTyping) of the render that made the caller: ChatWindow's
\* handleTyping hands {conversationId, isTyping} to sendSocketMessage
OnTyping(b, v, typing) ==
    [b EXCEPT !.last[v] = IF typing THEN "true" ELSE "false"]

\* handleContentChange(value), nonblank = value.trim() is not empty: the ref's
\* timer is cleared; a non-blank value sends isTyping true and sets a new
\* 2-second timer whose callback keeps this render's onTyping; a blank value
\* sends isTyping false
HandleContentChange(nonblank) ==
    /\ box.left > 0
    /\ LET typed == [ClearTypingTimeout(box) EXCEPT !.content = nonblank, !.submitted = FALSE,
                                                    !.left = @ - 1]
           v == box.conversationId
       IN BoxStep(IF nonblank
                  THEN [OnTyping(typed, v, TRUE) EXCEPT
                           !.timers = Append(@, [id |-> box.left, conv |-> v, owned |-> TRUE]),
                           !.ref = box.left]
                  ELSE OnTyping(typed, v, FALSE))

\* the callback of the oldest pending typing timer runs: onTyping(false) of
\* the render that set it
TypingTimeout ==
    /\ box.timers # <<>>
    /\ BoxStep([OnTyping(box, Head(box.timers).conv, FALSE) EXCEPT !.timers = Tail(@)])

\* handleSubmit: returns at once when there is nothing to send; otherwise
\* empties content and attachments, sends isTyping false and clears the
\* ref's timer
HandleSubmit ==
    /\ box.left > 0
    /\ box.content \/ box.attachments
    /\ BoxStep([ClearTypingTimeout(OnTyping(box, box.conversationId, FALSE)) EXCEPT
                   !.content = FALSE, !.attachments = FALSE, !.submitted = TRUE,
                   !.left = @ - 1])

\* handleFileSelect with an image, and removeAttachment of the last one
HandleFileSelect ==
    /\ box.left > 0
    /\ BoxStep([box EXCEPT !.attachments = TRUE, !.left = @ - 1])

RemoveAttachment ==
    /\ box.left > 0
    /\ box.attachments
    /\ BoxStep([box EXCEPT !.attachments = FALSE, !.left = @ - 1])

\* handleEmojiSelect: setContent only, handleContentChange is not called
HandleEmojiSelect ==
    /\ box.left > 0
    /\ BoxStep([box EXCEPT !.content = TRUE, !.left = @ - 1])

\* Home hands ChatWindow another conversationId. With both queries answered
\* from the cache ChatWindow keeps rendering MessageInput, whose effect on
\* conversationId empties content and calls loadDraft while attachments,
\* typingTimeoutRef and the pending timer stay. Otherwise ChatWindow renders
\* its loading view first, so MessageInput is unmounted and mounted anew; no
\* cleanup clears the old timer, which still fires
SelectConversation(v, cached) ==
    /\ box.left > 0
    /\ v # box.conversationId
    /\ BoxStep(IF cached
               THEN [box EXCEPT !.conversationId = v, !.content = FALSE, !.draft = TRUE,
                                !.left = @ - 1]
               ELSE [NewBox(v) EXCEPT
                        !.timers = [n \in DOMAIN box.timers |->
                                       [box.timers[n] EXCEPT !.owned = FALSE]],
                        !.last = box.last, !.left = box.left - 1])

\* loadDraft's fetch answers: a stored draft becomes the content
DraftLoaded(found) ==
    /\ box.draft
    /\ BoxStep([box EXCEPT !.draft = FALSE, !.content = IF found THEN TRUE ELSE @])

NextBox ==
    \/ \E nonblank \in BOOLEAN : HandleContentChange(nonblank)
    \/ TypingTimeout
    \/ HandleSubmit
    \/ HandleFileSelect
    \/ RemoveAttachment
    \/ HandleEmojiSelect
    \/ \E v \in Convs, cached \in BOOLEAN : SelectConversation(v, cached)
    \/ \E found \in BOOLEAN : DraftLoaded(found)

\* the page of B, who is in both conversations, with v1 open
InitBox == Bound(0, FALSE, MaxTasks)

SpecBox == InitBox /\ [][NextBox]_vars

\* no typing timer is pending: the input has been left alone for 2 seconds
Quiet == box.timers = <<>>

\* C30: once the input is left alone, the last typing event sent for every
\* conversation is isTyping false (or none was sent); and after a submit, no
\* timer of the message box fires before the next input change.
C30_TypingCleared ==
    /\ [](Quiet => \A v \in Convs : box.last[v] # "true")
    /\ [][box.submitted /\ box'.submitted
            => ~(TypingTimeout /\ Head(box.timers).owned)]_vars

\* ------------------------------------------- a superseded connection closes
\* C32: when a connection bound to A closes while the registry maps A to
\* another, open connection, A's entry stays as it is (so sends still reach
\* A), and the close handler writes no user-status-changed{A, offline}.
C32_SupersededClose ==
    [][/\ \A c \in Conns :
             (/\ Close(c)
              /\ userId[c] # Null
              /\ clients[userId[c]] # c
              /\ IsOpen(clients[userId[c]]))
             => clients'[userId[c]] = clients[userId[c]]
       /\ \A i \in Handles :
             (/\ IsTask(i)
              /\ CloseNotify(i)
              /\ \E c \in Conns : IsOpen(c) /\ userId[c] = TaskAt(i).u /\ c # TaskAt(i).conn)
             => \A s \in sent' : s.conn = NoConn]_vars

\* C33: whenever no handler is in progress, an identity's users.status is
\* "online" exactly when the registry maps it to an open connection.
C33_StatusMatchesRegistry ==
    NumTasks = 0 => \A u \in Users : (userStatus[u] = "online") <=> IsOpen(clients[u])

\* C37: a call's startedAt, once stamped, is never changed by a later
\* accept-call.
C37_StartedAtStable ==
    [][\A k \in DOMAIN calls :
          calls[k].startedAt # Nil => calls'[k].startedAt = calls[k].startedAt]_vars

\* ------------------------------------------------------------ invite links
\* POST /api/invite-links/:token/join by session user u, with the token of
\* the link, up to the await of getInviteLinkByToken inside useInviteLink
HttpJoin(u) ==
    /\ NumTasks < cap
    /\ Suspend(Task("join", NoConn, "link", Null, Nil, u))
    /\ Arrive
    /\ NoEmit
    /\ UNCHANGED link
    /\ UNCHANGED <<connState, userId, clients, userStatus, isTyping, receipts, recording, cap,
                   messages, http, box, endpoint, callVars, ghost>>

\* getInviteLinkByToken completes (val: the useCount read). A link used up
\* makes useInviteLink return null and the route answer 400; otherwise
\* isUserInConversation is issued
JoinLink(i) ==
    /\ IsTask(i)
    /\ TaskAt(i).type = "join" /\ TaskAt(i).pc = "link"
    /\ IF link.useCount >= link.maxUses
       THEN Finish(i)
       ELSE Resume(i, [TaskAt(i) EXCEPT !.pc = "member", !.val = link.useCount])
    /\ NoEmit
    /\ UNCHANGED link
    /\ UNCHANGED <<connState, userId, clients, userStatus, isTyping, receipts, recording, cap,
                   messages, http, box, endpoint, callVars, ghost, budget>>

\* isUserInConversation completes: a participant gets the conversation
\* without a use of the link; for anybody else addParticipant is issued
JoinMember(i) ==
    /\ IsTask(i)
    /\ TaskAt(i).type = "join" /\ TaskAt(i).pc = "member"
    /\ Resume(i, [TaskAt(i) EXCEPT !.pc = IF TaskAt(i).u \in link.members
                                          THEN "broadcast" ELSE "add"])
    /\ NoEmit
    /\ UNCHANGED link
    /\ UNCHANGED <<connState, userId, clients, userStatus, isTyping, receipts, recording, cap,
                   messages, http, box, endpoint, callVars, ghost, budget>>

\* addParticipant completes; the update of useCount is issued
JoinAdd(i) ==
    /\ IsTask(i)
    /\ TaskAt(i).type = "join" /\ TaskAt(i).pc = "add"
    /\ link' = [link EXCEPT !.members = @ \cup {TaskAt(i).u}, !.added = @ + 1]
    /\ Resume(i, [TaskAt(i) EXCEPT !.pc = "count"])
    /\ NoEmit
    /\ UNCHANGED <<connState, userId, clients, userStatus, isTyping, receipts, recording, cap,
                   messages, http, box, endpoint, callVars, ghost, budget>>

\* set({ useCount: (inviteLink.useCount || 0) + 1 }) completes, with the
\* useCount the handler read at its start
JoinCount(i) ==
    /\ IsTask(i)
    /\ TaskAt(i).type = "join" /\ TaskAt(i).pc = "count"
    /\ link' = [link EXCEPT !.useCount = TaskAt(i).val + 1]
    /\ Resume(i, [TaskAt(i) EXCEPT !.pc = "broadcast"])
    /\ NoEmit
    /\ UNCHANGED <<connState, userId, clients, userStatus, isTyping, receipts, recording, cap,
                   messages, http, box, endpoint, callVars, ghost, budget>>

\* getConversation, getConversationWithDetails and getUser complete;
\* new-participant goes to the other participants and the route answers
JoinBroadcast(i) ==
    /\ IsTask(i)
    /\ TaskAt(i).type = "join" /\ TaskAt(i).pc = "broadcast"
    /\ Emit(broadcastToUsers(link.members \ {TaskAt(i).u},
                             Ev("new-participant", Null, Null, TaskAt(i).u, Nil)))
    /\ Finish(i)
    /\ UNCHANGED link
    /\ UNCHANGED <<connState, userId, clients, userStatus, isTyping, receipts, recording, cap,
                   messages, http, box, endpoint, callVars, ghost, budget>>

NextJoin ==
    \/ \E u \in Users : HttpJoin(u)
    \/ \E i \in Handles : JoinLink(i)
    \/ \E i \in Handles : JoinMember(i)
    \/ \E i \in Handles : JoinAdd(i)
    \/ \E i \in Handles : JoinCount(i)
    \/ \E i \in Handles : JoinBroadcast(i)

\* up to MaxRace join requests are handled at a time
InitJoin == Bound(MaxJoinEvents, FALSE, MaxRace)

SpecJoin == InitJoin /\ [][NextJoin]_vars

\* C38: no more than maxUses identities are added through the link, and its
\* useCount never exceeds maxUses.
C38_MaxUses == link.added <= link.maxUses /\ link.useCount <= link.maxUses

\* ---------------------------------------------------- end-call, repeated
\* C34: an end-call for a call that an earlier end-call has ended (the
\* handler read it with status ended and endedAt stamped) leaves endedAt and
\* duration as they are and broadcasts nothing, so call-ended is broadcast
\* at most once per call.
C34_EndedOnce ==
    [][\A i \in Handles :
          (/\ IsTask(i)
           /\ TaskAt(i).type = "end-call" /\ TaskAt(i).call.status = "ended"
           /\ calls[TaskAt(i).callId].endedAt # Nil)
          => /\ EndUpdate(i)
                => /\ calls'[TaskAt(i).callId].endedAt = calls[TaskAt(i).callId].endedAt
                   /\ calls'[TaskAt(i).callId].duration = calls[TaskAt(i).callId].duration
             /\ EndBroadcast(i) => sent' = {}]_vars

\* ------------------------------------------------- the client's call context
\* The page of B: A is the initiator of the calls it is offered and the
\* participant of the calls it starts. The hub is left alone while the page
\* acts.
EndpointStep(e) ==
    /\ endpoint.left > 0
    /\ endpoint' = [e EXCEPT !.left = endpoint.left - 1]
    /\ UNCHANGED <<connState, userId, clients, userStatus, isTyping, receipts, calls, callParts,
                   now, budget, tasks, sent, inbox, recording, cap, messages, http, box, link,
                   ghost>>

\* sendMessage(type, payload)
SendFrame(e, type, k) == [e EXCEPT !.out = Append(@, [type |-> type, callId |-> k])]

\* createPeerConnection(userId): a new RTCPeerConnection takes userId's place
\* in the map, whatever was there
createPeerConnection(e, u) ==
    [e EXCEPT !.made = @ + 1, !.open = @ \cup {e.made + 1}, !.peers[u] = e.made + 1]

\* onMessage "incoming-call"
RecvIncomingCall(k) ==
    /\ k \in 1..MaxCalls
    /\ EndpointStep([endpoint EXCEPT !.incomingCall = k])

\* onMessage "webrtc-offer": handleOffer up to its first await, with the
\* connection of the map or a new one
HandleOffer(u) ==
    /\ u \in Users
    /\ LET e == IF endpoint.peers[u] = 0 THEN createPeerConnection(endpoint, u) ELSE endpoint
       IN EndpointStep([e EXCEPT !.answering = @ \cup {<<u, e.peers[u]>>}])

\* handleOffer after its awaits: webrtc-answer is sent; on a connection
\* closed meanwhile setRemoteDescription rejects and the catch only logs
OfferAnswered(u, pc) ==
    /\ <<u, pc>> \in endpoint.answering
    /\ LET e == [endpoint EXCEPT !.answering = @ \ {<<u, pc>>}]
       IN EndpointStep(IF pc \in endpoint.open THEN SendFrame(e, "webrtc-answer", 0) ELSE e)

\* startCall once getUserMedia has resolved: the stream is kept and the
\* connection to the participant is made; createOffer is awaited.
\* state.currentCall is not set
StartCall(u) ==
    /\ ~endpoint.localStream
    /\ LET e == createPeerConnection([endpoint EXCEPT !.localStream = TRUE], u)
       IN EndpointStep([e EXCEPT !.offering = @ \cup {<<u, e.peers[u]>>}])

\* startCall after createOffer and setLocalDescription: webrtc-offer and,
\* the participant being the last one, start-call are sent; on a closed
\* connection createOffer rejects and startCall throws
StartOffer(u, pc) ==
    /\ <<u, pc>> \in endpoint.offering
    /\ LET e == [endpoint EXCEPT !.offering = @ \ {<<u, pc>>}]
       IN EndpointStep(IF pc \in endpoint.open
                       THEN SendFrame(SendFrame(e, "webrtc-offer", 0), "start-call", 0)
                       ELSE e)

\* acceptCall once getUserMedia has resolved
AcceptCall ==
    /\ endpoint.incomingCall # 0
    /\ LET e == createPeerConnection([endpoint EXCEPT !.localStream = TRUE], "A")
       IN EndpointStep(SendFrame([e EXCEPT !.currentCall = endpoint.incomingCall,
                                            !.incomingCall = 0],
                                 "accept-call", endpoint.incomingCall))

\* declineCall
DeclineCall ==
    /\ endpoint.incomingCall # 0
    /\ EndpointStep(SendFrame([endpoint EXCEPT !.incomingCall = 0],
                              "decline-call", endpoint.incomingCall))

\* endCall, run by the user or by onMessage "call-ended" / "call-declined"
\* (which also drops the incoming call): the connections of the map are
\* closed, the map is cleared, the stream is stopped, end-call is sent for
\* state.currentCall and the state is reset
EndCall(cause) ==
    /\ cause \in {"user", "call-ended", "call-declined"}
    /\ LET e == [endpoint EXCEPT
                    !.open = @ \ {endpoint.peers[u] : u \in Users},
                    !.peers = [u \in Users |-> 0],
                    !.localStream = FALSE,
                    !.currentCall = 0,
                    !.incomingCall = IF cause = "call-declined" THEN 0 ELSE @]
       IN EndpointStep(IF endpoint.currentCall # 0
                       THEN SendFrame(e, "end-call", endpoint.currentCall)
                       ELSE e)

\* toggleMute and toggleVideo need the local stream, toggleScreenShare does
\* not; each sends its flag only
Toggle(type) ==
    /\ type = "toggle-screen-share" \/ endpoint.localStream
    /\ EndpointStep(SendFrame(endpoint, type, 0))

\* The handlers of webrtc-answer and ice-candidate change nothing kept here.
NextEndpoint ==
    \/ \E k \in 1..MaxCalls : RecvIncomingCall(k)
    \/ \E u \in {"A", "C"} : HandleOffer(u)
    \/ \E u \in Users, pc \in 1..MaxEndpointEvents : OfferAnswered(u, pc)
    \/ StartCall("A")
    \/ \E pc \in 1..MaxEndpointEvents : StartOffer("A", pc)
    \/ AcceptCall
    \/ DeclineCall
    \/ \E cause \in {"user", "call-ended", "call-declined"} : EndCall(cause)
    \/ \E type \in ToggleTypes : Toggle(type)

InitEndpoint == Bound(0, FALSE, MaxTasks)

SpecEndpoint == InitEndpoint /\ [][NextEndpoint]_vars

\* C31: when endCall has run, every RTCPeerConnection the endpoint made is
\* closed and the peer map is empty.
C31_PeersClosed ==
    [][(\E cause \in {"user", "call-ended", "call-declined"} : EndCall(cause))
       => /\ endpoint'.open = {}
          /\ \A u \in Users : endpoint'.peers[u] = 0]_vars

\* C35: an endpoint in a call (its stream is live after startCall or
\* acceptCall) whose user runs endCall sends end-call with the call's id.
C35_EndCallSent ==
    [][(endpoint.localStream /\ EndCall("user"))
       => /\ Len(endpoint'.out) = Len(endpoint.out) + 1
          /\ endpoint'.out[Len(endpoint'.out)].type = "end-call"
          /\ endpoint'.out[Len(endpoint'.out)].callId # 0]_vars

\* C36: every toggle frame the endpoint sends during a call (its stream is
\* live) carries the callId that the hub's toggle case requires
\* (payload.callId).
C36_ToggleHasCallId ==
    [][\A type \in ToggleTypes :
          (endpoint.localStream /\ Toggle(type))
          => endpoint'.out[Len(endpoint'.out)].callId # 0]_vars

====
